---- MODULE Spec2Model ----
(***************************************************************************)
(* A model of the bitchat-electron protocol core: the binary packet codec  *)
(* (BinaryProtocol), the Noise XX handshake (NoiseProtocol, CipherState,   *)
(* SymmetricState), the per-peer session manager (NoiseSessionManager),    *)
(* the mesh router (BitchatProtocol) and the BLE send path                 *)
(* (TransportManager, BLETransport).                                       *)
(*                                                                         *)
(* Each component has its own variables and its own specification; the     *)
(* variables of the other components stay at their initial values.         *)
(***************************************************************************)
EXTENDS Integers, Sequences, FiniteSets, TLC

VARIABLES
    cPacket,    \* codec: the packet P handed to BinaryProtocol.encode
    cEncoded,   \* codec: the buffer encode returned
    cDecoded,   \* codec: what decode returned for that buffer
    cStep,      \* codec: "input", "encoded", "truncated" or "decoded"
    nState,     \* noise: role -> HandshakeState, driven directly
    nPool,      \* noise: the handshake messages written so far, in order
    nLast,      \* noise: the last writeMessage/readMessage call and its outcome
    nEph,       \* noise: number of ephemeral key pairs generated
    mPending,   \* manager: node -> peer -> HandshakeInfo (pendingHandshakes)
    mSessions,  \* manager: node -> peer -> SessionInfo (sessions)
    mEvents,    \* manager: node -> peer -> events emitted about that peer
    mNet,       \* manager: node -> peer -> packets in flight from node to peer
    mNow,       \* manager: Date.now(), in ms since the managers were created
    mCleanupAt, \* manager: node -> time its cleanup interval timer fires next
    mEph,       \* manager: node -> number of ephemeral key pairs generated
    mBudget,    \* manager: what the environment has done so far
    mLast,      \* manager: the last call made on a manager and its outcome
    rCache,     \* router: messageCache, the packet ids in insertion order
    rDelivered, \* router: the packet ids processPacket has accepted so far
    rLast,      \* router: the last processPacket call and what it did
    rBlocked,   \* router: settings.blockedPeers of the node's application
    sNonce,     \* send: nonce of the send cipher of the recipient's session
    sLink,      \* send: the fragments handed to the BLE link, in order
    sTimers,    \* send: sendData calls awaiting their 10 ms timer, in order
    sCalls,     \* send: number of send calls made so far
    sResult,    \* send: what each call returned, once it has
    sSubscribed, \* send: NotifyCharacteristic.isSubscribed
    kCipher,    \* cipher: CipherState object -> its key and nonce
    kPool,      \* cipher: the ciphertexts encryptWithAd has returned, in order
    kUsed,      \* cipher: object -> nonces encrypted with under the key it holds
    kLast,      \* cipher: the last call on a CipherState and its outcome
    kOps,       \* cipher: number of calls made so far
    tLast,      \* pipe: the last TransportManager call and its outcome
    tSeen,      \* pipe: node -> ids of the packets handlePacket has received
    fInput,     \* frag: the message id and payload handed to fragmentMessage
    fPackets,   \* frag: the packets fragmentMessage returned
    fArrived,   \* frag: the fragments parsed so far, in arrival order
    fResult,    \* frag: what reassembleFragments returned for them
    fCache,     \* frag: fragmentCache, message id -> fragments in arrival order
    fLast,      \* frag: the last handleFragment call and its outcome
    fCount,     \* frag: number of fragment packets received so far
    fAbandoned, \* frag: the message ids whose senders have given up
    fNow,       \* frag: the time of day, in ticks
    pInput,     \* pad: the payload handed to applyPadding
    pPadded,    \* pad: what applyPadding returned, once called
    pResult,    \* pad: what removePadding did with it, once called
    hAccepted,  \* history: the packets processPacket has accepted so far
    bNotify,    \* ble: the fields of the NotifyCharacteristic
    bLatest,    \* ble: the latest subscription event of the client
    bSubs,      \* ble: number of subscribe events so far
    bConnection, \* ble: BLETransport.currentConnection, by address
    bPeers,     \* ble: the keys of TransportManager.peers
    bClients,   \* ble: the clients that are connected
    bLast       \* ble: the last sendData call and its outcome

codecVars == <<cPacket, cEncoded, cDecoded, cStep>>

noiseVars == <<nState, nPool, nLast, nEph>>

managerVars == <<mPending, mSessions, mEvents, mNet, mNow, mCleanupAt, mEph,
                 mBudget, mLast>>

routerVars == <<rCache, rDelivered, rLast, rBlocked>>

sendVars == <<sNonce, sLink, sTimers, sCalls, sResult, sSubscribed>>

cipherVars == <<kCipher, kPool, kUsed, kLast, kOps>>

pipeVars == <<tLast, tSeen>>

fragVars == <<fInput, fPackets, fArrived, fResult, fCache, fLast, fCount, fAbandoned, fNow>>

padVars == <<pInput, pPadded, pResult>>

historyVars == <<hAccepted>>

bleVars == <<bNotify, bLatest, bSubs, bConnection, bPeers, bClients, bLast>>

vars == <<codecVars, noiseVars, managerVars, routerVars, sendVars, cipherVars,
    pipeVars, fragVars, padVars, historyVars, bleVars>>

\* What the actions of each component leave unchanged.
codecFrame == <<noiseVars, managerVars, routerVars, sendVars, cipherVars,
    pipeVars, fragVars, padVars, historyVars, bleVars>>

noiseFrame == <<codecVars, managerVars, routerVars, sendVars, cipherVars,
    pipeVars, fragVars, padVars, historyVars, bleVars>>

managerFrame == <<codecVars, noiseVars, routerVars, sendVars, cipherVars,
    pipeVars, fragVars, padVars, historyVars, bleVars>>

routerFrame == <<codecVars, noiseVars, managerVars, sendVars, cipherVars,
    pipeVars, fragVars, padVars, historyVars, bleVars>>

sendFrame == <<codecVars, noiseVars, managerVars, routerVars, cipherVars,
    pipeVars, fragVars, padVars, historyVars, bleVars>>

cipherFrame == <<codecVars, noiseVars, managerVars, routerVars, sendVars,
    pipeVars, fragVars, padVars, historyVars, bleVars>>

pipeFrame == <<codecVars, noiseVars, managerVars,
    routerVars, sendVars, cipherVars, fragVars, padVars, historyVars, bleVars>>

fragFrame == <<codecVars, noiseVars, managerVars,
    routerVars, sendVars, cipherVars, pipeVars, padVars, historyVars, bleVars>>

padFrame == <<codecVars, noiseVars, managerVars, routerVars,
    sendVars, cipherVars, pipeVars, fragVars, historyVars, bleVars>>

historyFrame == <<codecVars, noiseVars, managerVars, routerVars,
    sendVars, cipherVars, pipeVars, fragVars, padVars, bleVars>>

bleFrame == <<codecVars, noiseVars, managerVars, routerVars, sendVars,
    cipherVars, pipeVars, fragVars, padVars, historyVars>>

(***************************************************************************)
(* Small helpers.                                                          *)
(***************************************************************************)
Min(a, b) == IF a < b THEN a ELSE b

Max(a, b) == IF a > b THEN a ELSE b

(***************************************************************************)
(* Protocol constants (shared/constants).                                  *)
(***************************************************************************)
PROTOCOL_VERSION == 1

MAX_TTL == 7

MESSAGE_MAX_SIZE == 65535

BLE_MTU == 512

HAS_RECIPIENT == 1

HAS_SIGNATURE == 2

IS_COMPRESSED == 4

LEAVE == 3

MESSAGE == 4

NOISE_HANDSHAKE_INIT == 16

NOISE_HANDSHAKE_RESP == 17

NOISE_ENCRYPTED == 18

BROADCAST_ID == <<255, 255, 255, 255, 255, 255, 255, 255>>

(***************************************************************************)
(* Node Buffers.  A buffer is a sequence of bytes; offsets are 0-based as  *)
(* in the source.  An optional field that is undefined is Absent.          *)
(***************************************************************************)
Absent == <<-1>>

\* Buffer.alloc(n): n zero bytes.
alloc(n) == [i \in 1..n |-> 0]

\* buf.writeUInt8(v, offset)
writeUInt8(buf, v, offset) == [buf EXCEPT ![offset + 1] = v % 256]

\* buf.writeUInt16BE(v, offset)
writeUInt16BE(buf, v, offset) ==
    [buf EXCEPT ![offset + 1] = (v \div 256) % 256, ![offset + 2] = v % 256]

\* buf.writeBigUInt64BE(BigInt(v), offset).  Model timestamps are below 2^31,
\* so the four high bytes are zero.
writeBigUInt64BE(buf, v, offset) ==
    [buf EXCEPT ![offset + 1] = 0, ![offset + 2] = 0,
                ![offset + 3] = 0, ![offset + 4] = 0,
                ![offset + 5] = (v \div 16777216) % 256,
                ![offset + 6] = (v \div 65536) % 256,
                ![offset + 7] = (v \div 256) % 256,
                ![offset + 8] = v % 256]

readUInt16BE(buf, offset) == buf[offset + 1] * 256 + buf[offset + 2]

\* Number(buf.readBigUInt64BE(offset)), for values below 2^31.
readBigUInt64BE(buf, offset) ==
    ((buf[offset + 5] * 256 + buf[offset + 6]) * 256 + buf[offset + 7]) * 256
        + buf[offset + 8]

\* source.copy(target, targetStart, sourceStart, sourceEnd): Node copies as
\* many bytes as fit in the target and as the source has, silently dropping
\* the rest; nothing is copied when targetStart is at or past the target's end.
copy(source, target, targetStart, sourceStart, sourceEnd) ==
    LET avail == Min(sourceEnd, Len(source)) - sourceStart
        room  == Len(target) - targetStart
        n     == Max(0, Min(avail, room))
    IN  [i \in 1..Len(target) |->
            IF i > targetStart /\ i <= targetStart + n
            THEN source[sourceStart + (i - targetStart)]
            ELSE target[i]]

(***************************************************************************)
(* BinaryProtocol.encode / decode.                                         *)
(***************************************************************************)
NoPacket ==
    [version |-> 0, type |-> 0, ttl |-> 0, timestamp |-> 0, flags |-> 0,
     senderID |-> <<>>, recipientID |-> Absent, payload |-> <<>>,
     signature |-> Absent, isCompressed |-> FALSE]

\* The flags byte encode computes from the packet's optional fields.
encodeFlags(packet) ==
    (IF packet.recipientID # Absent THEN HAS_RECIPIENT ELSE 0)
    + (IF packet.signature # Absent THEN HAS_SIGNATURE ELSE 0)
    + (IF packet.isCompressed THEN IS_COMPRESSED ELSE 0)

\* A buffer with no room for the signature.
encodeBufferSizeNoSignature(packet) ==
    13 + 8 + Len(packet.payload)
    + (IF packet.recipientID # Absent THEN 8 ELSE 0)

\* The size of the buffer encode allocates.
encodeBufferSize(packet) ==
    13 + 8 + Len(packet.payload)
    + (IF packet.recipientID # Absent THEN 8 ELSE 0)
    + (IF packet.signature # Absent THEN 64 ELSE 0)

encode(packet) ==
    IF Len(packet.payload) > MESSAGE_MAX_SIZE
    THEN [ok |-> FALSE, val |-> <<>>]
    ELSE
      LET b0 == alloc(encodeBufferSize(packet))
          b1 == writeUInt8(b0, packet.version, 0)
          b2 == writeUInt8(b1, packet.type, 1)
          b3 == writeUInt8(b2, packet.ttl, 2)
          b4 == writeBigUInt64BE(b3, packet.timestamp, 3)
          b5 == writeUInt8(b4, encodeFlags(packet), 11)
          b6 == writeUInt16BE(b5, Len(packet.payload), 12)
          \* offset is now 14
          b7 == copy(packet.senderID, b6, 14, 0, Len(packet.senderID))
          o7 == 22
          b8 == IF packet.recipientID # Absent
                THEN copy(packet.recipientID, b7, o7, 0, Len(packet.recipientID))
                ELSE b7
          o8 == IF packet.recipientID # Absent THEN o7 + 8 ELSE o7
          b9 == copy(packet.payload, b8, o8, 0, Len(packet.payload))
          o9 == o8 + Len(packet.payload)
          b10 == IF packet.signature # Absent
                 THEN copy(packet.signature, b9, o9, 0, Len(packet.signature))
                 ELSE b9
      IN  [ok |-> TRUE, val |-> b10]

decode(data) ==
    IF Len(data) < 13
    THEN [ok |-> FALSE, val |-> NoPacket]
    ELSE IF Len(data) < 14
    THEN [ok |-> FALSE, val |-> NoPacket]   \* readUInt16BE(12) is out of range
    ELSE
      LET version == data[1]
          type == data[2]
          ttl == data[3]
          timestamp == readBigUInt64BE(data, 3)
          flags == data[12]
          payloadLength == readUInt16BE(data, 12)
          hasRecipient == (flags \div HAS_RECIPIENT) % 2 = 1
          hasSignature == (flags \div HAS_SIGNATURE) % 2 = 1
          isCompressed == (flags \div IS_COMPRESSED) % 2 = 1
          expectedSize == 13 + 8 + payloadLength
                          + (IF hasRecipient THEN 8 ELSE 0)
                          + (IF hasSignature THEN 64 ELSE 0)
          o1 == 14
          senderID == copy(data, alloc(8), 0, o1, o1 + 8)
          o2 == o1 + 8
          recipientID == IF hasRecipient
                         THEN copy(data, alloc(8), 0, o2, o2 + 8)
                         ELSE Absent
          o3 == IF hasRecipient THEN o2 + 8 ELSE o2
          payload == copy(data, alloc(payloadLength), 0, o3, o3 + payloadLength)
          o4 == o3 + payloadLength
          signature == IF hasSignature
                       THEN copy(data, alloc(64), 0, o4, o4 + 64)
                       ELSE Absent
      IN  IF Len(data) < expectedSize
          THEN [ok |-> FALSE, val |-> NoPacket]
          ELSE [ok |-> TRUE,
                val |-> [version |-> version, type |-> type, ttl |-> ttl,
                         timestamp |-> timestamp, flags |-> flags,
                         senderID |-> senderID, recipientID |-> recipientID,
                         payload |-> payload, signature |-> signature,
                         isCompressed |-> isCompressed]]

(***************************************************************************)
(* Bounded inputs of the codec.                                            *)
(***************************************************************************)
MaxPayloadLen == 2

LongPayloadLen == 300

ByteSamples == {0, 65, 255}

RECURSIVE SeqsUpTo(_, _)
SeqsUpTo(S, n) ==
    IF n = 0 THEN {<<>>}
    ELSE LET shorter == SeqsUpTo(S, n - 1)
         IN  shorter \cup {Append(s, x) : s \in {t \in shorter : Len(t) = n - 1}, x \in S}

Payloads ==
    SeqsUpTo(ByteSamples, MaxPayloadLen)
    \cup {[i \in 1..LongPayloadLen |-> (i * 7) % 256]}

PeerIds == { <<18, 52, 86, 120, 144, 171, 205, 239>>,
             <<254, 220, 186, 9, 135, 101, 67, 33>> }

Signatures == { [i \in 1..64 |-> 255], [i \in 1..64 |-> 0], [i \in 1..64 |-> i] }

Timestamps == {0, 258, 1733251200 }

\* Well-formed packets: version 1, ttl 0..7, 8-byte ids, optional 64-byte
\* signature, flags matching the optional fields present.
WellFormedPackets ==
    { [p EXCEPT !.flags = encodeFlags(p)] : p \in
        [version : {PROTOCOL_VERSION}, type : {MESSAGE, NOISE_ENCRYPTED},
         ttl : {0, MAX_TTL}, timestamp : Timestamps, flags : {0},
         senderID : PeerIds, recipientID : PeerIds \cup {BROADCAST_ID, Absent},
         payload : Payloads, signature : Signatures \cup {Absent},
         isCompressed : BOOLEAN] }

CodecInit ==
    /\ cPacket \in WellFormedPackets
    /\ cEncoded = [ok |-> FALSE, val |-> <<>>]
    /\ cDecoded = [ok |-> FALSE, val |-> NoPacket]
    /\ cStep = "input"

CodecIdle ==
    /\ cPacket = NoPacket
    /\ cEncoded = [ok |-> FALSE, val |-> <<>>]
    /\ cDecoded = [ok |-> FALSE, val |-> NoPacket]
    /\ cStep = "input"

\* BinaryProtocol.encode(P)
Encode ==
    /\ cStep = "input"
    /\ cEncoded' = encode(cPacket)
    /\ cStep' = "encoded"
    /\ UNCHANGED <<cPacket, cDecoded, codecFrame>>

\* BinaryProtocol.decode(encoded)
Decode ==
    /\ cStep \in {"encoded", "truncated"}
    /\ cEncoded.ok
    /\ cDecoded' = decode(cEncoded.val)
    /\ cStep' = "decoded"
    /\ UNCHANGED <<cPacket, cEncoded, codecFrame>>

CodecNext == Encode \/ Decode

(***************************************************************************)
(* Symbolic cryptography.  Keys, hashes and ciphertexts are terms, written *)
(* as sequences of naturals so that any two of them can be compared.  A    *)
(* private key is a number; the term of every primitive lists its inputs,  *)
(* so two terms are equal exactly when the primitive was applied to equal  *)
(* inputs (no collisions, no forgeries).  The first element tags the term:  *)
(* 0 protocol name, 1 public key, 2 DH of two key pairs, 3 DH with bytes   *)
(* that are no public key, 4 SHA-256, 5 HMAC, 6 AEAD ciphertext, 7 bytes   *)
(* cut from a message across its fields.                                   *)
(***************************************************************************)
Null == <<>>

\* The Curve25519 public key of private key k.
pub(k) == <<1, k>>

\* KeyManager.dh(privateKey, publicKey): scalar multiplication commutes for
\* genuine public keys; any other 32 bytes give an unrelated value.
dh(privateKey, publicKey) ==
    IF Len(publicKey) = 2 /\ publicKey[1] = 1
    THEN <<2, Min(privateKey, publicKey[2]), Max(privateKey, publicKey[2])>>
    ELSE <<3, privateKey>> \o publicKey

\* createHash('sha256').update(a).update(b).digest()
sha256(a, b) == <<4, Len(a), Len(b)>> \o a \o b

\* SymmetricState.hmac(key, data)
hmac(key, data) == <<5, Len(key), Len(data)>> \o key \o data

\* SymmetricState.hkdf(chainingKey, inputKeyMaterial, numOutputs): the first
\* two outputs (numOutputs is 2 everywhere the handshake calls it).
hkdf(chainingKey, inputKeyMaterial) ==
    LET tempKey == hmac(chainingKey, inputKeyMaterial)
        out1 == hmac(tempKey, <<1>>)
        out2 == hmac(tempKey, out1 \o <<2>>)
    IN  <<out1, out2>>

\* The ChaCha20-Poly1305 ciphertext-and-tag of plaintext under (key, nonce, ad).
aead(key, nonce, ad, plaintext) ==
    <<6, nonce, Len(key), Len(ad)>> \o key \o ad \o plaintext

\* A buffer travelling in a handshake message: its byte length and its term.
Block(len, val) == [len |-> len, val |-> val]

EmptyBlock == Block(0, <<>>)

\* CipherState.encryptWithAd(ad, plaintext) under (key, nonce): ciphertext
\* followed by the 16-byte tag.
encryptWithAd(key, nonce, ad, plaintext) ==
    Block(plaintext.len + 16, aead(key, nonce, ad, plaintext.val))

\* CipherState.decryptWithAd(ad, ciphertext) under (key, nonce): the
\* plaintext, or thrown when the ciphertext is shorter than a tag or fails
\* authentication.
decryptWithAd(key, nonce, ad, ciphertext) ==
    LET c == ciphertext.val
        hdr == 4 + Len(key) + Len(ad)
        authentic ==
            /\ ciphertext.len >= 16
            /\ Len(c) >= hdr
            /\ c[1] = 6
            /\ SubSeq(c, 1, hdr) = <<6, nonce, Len(key), Len(ad)>> \o key \o ad
    IN  IF authentic
        THEN [thrown |-> FALSE,
              out |-> Block(ciphertext.len - 16, SubSeq(c, hdr + 1, Len(c)))]
        ELSE [thrown |-> TRUE, out |-> EmptyBlock]

(***************************************************************************)
(* Handshake messages are sequences of non-empty blocks (Buffer.concat).   *)
(***************************************************************************)
RECURSIVE msgLength(_)
msgLength(m) == IF m = <<>> THEN 0 ELSE Head(m).len + msgLength(Tail(m))

RECURSIVE msgFlat(_)
msgFlat(m) == IF m = <<>> THEN <<>> ELSE <<Head(m).len>> \o Head(m).val \o msgFlat(Tail(m))

concat(m, block) == IF block.len = 0 THEN m ELSE Append(m, block)

\* message.slice(offset, offset + n): the block lying exactly there, and
\* otherwise bytes that are no block any party wrote.
slice(m, offset, n) ==
    IF n = 0 THEN EmptyBlock
    ELSE IF \E i \in 1..Len(m) : msgLength(SubSeq(m, 1, i - 1)) = offset /\ m[i].len = n
    THEN m[CHOOSE i \in 1..Len(m) : msgLength(SubSeq(m, 1, i - 1)) = offset /\ m[i].len = n]
    ELSE Block(n, <<7, offset, n>> \o msgFlat(m))

(***************************************************************************)
(* NoiseProtocol handshake state, with its SymmetricState (ck, h) and the  *)
(* SymmetricState's CipherState (k, n) inlined.  A null key or buffer is   *)
(* Null; a missing ephemeral key pair is 0.                                *)
(***************************************************************************)
XX_PATTERN == << <<"e">>, <<"e", "ee", "s", "es">>, <<"s", "se">> >>

\* NoiseProtocol.createHandshakeState(role, localStatic)
createHandshakeState(role, localStatic) ==
    [role |-> role, messageIndex |-> 0, isComplete |-> FALSE,
     localStatic |-> localStatic, localEphemeral |-> 0,
     remoteStatic |-> Null, remoteEphemeral |-> Null,
     ck |-> <<0>>, h |-> <<0>>, k |-> Null, n |-> 0]

\* SymmetricState.mixHash(data)
mixHash(st, data) == [st EXCEPT !.h = sha256(st.h, data)]

\* SymmetricState.mixKey(inputKeyMaterial), with CipherState.initializeKey
mixKey(st, inputKeyMaterial) ==
    LET o == hkdf(st.ck, inputKeyMaterial)
    IN  [st EXCEPT !.ck = o[1], !.k = o[2], !.n = 0]

\* SymmetricState.encryptAndHash(plaintext)
encryptAndHash(st, plaintext) ==
    LET ciphertext == IF st.k # Null
                      THEN encryptWithAd(st.k, st.n, st.h, plaintext)
                      ELSE plaintext
        st1 == IF st.k # Null THEN [st EXCEPT !.n = @ + 1] ELSE st
    IN  [st |-> mixHash(st1, ciphertext.val), out |-> ciphertext]

\* SymmetricState.decryptAndHash(ciphertext)
decryptAndHash(st, ciphertext) ==
    IF st.k # Null
    THEN LET d == decryptWithAd(st.k, st.n, st.h, ciphertext)
         IN  IF d.thrown
             THEN [st |-> st, out |-> EmptyBlock, thrown |-> TRUE]
             ELSE [st |-> mixHash([st EXCEPT !.n = @ + 1], ciphertext.val),
                   out |-> d.out, thrown |-> FALSE]
    ELSE [st |-> mixHash(st, ciphertext.val), out |-> ciphertext, thrown |-> FALSE]

\* SymmetricState.split(): the keys of the two transport ciphers.
split(st) == hkdf(st.ck, <<>>)

NoSession ==
    [sendKey |-> Null, sendNonce |-> 0, receiveKey |-> Null, receiveNonce |-> 0,
     handshakeHash |-> Null, remoteStaticPublicKey |-> Null]

\* The DH tokens, shared by writeMessage and readMessage: the new state, or
\* thrown when a key the token needs is missing.
dhToken(st, token) ==
    LET isInitiator == st.role = "initiator"
        needLocalE == token = "ee" \/ (token = "es" /\ isInitiator)
                                   \/ (token = "se" /\ ~isInitiator)
        needRemoteE == token = "ee" \/ (token = "es" /\ ~isInitiator)
                                    \/ (token = "se" /\ isInitiator)
        needRemoteS == (token = "es" /\ isInitiator) \/ (token = "se" /\ ~isInitiator)
        priv == IF needLocalE THEN st.localEphemeral ELSE st.localStatic
        other == IF needRemoteS THEN st.remoteStatic ELSE st.remoteEphemeral
    IN  IF \/ (needLocalE /\ st.localEphemeral = 0)
           \/ (needRemoteE /\ st.remoteEphemeral = Null)
           \/ (needRemoteS /\ st.remoteStatic = Null)
        THEN [st |-> st, thrown |-> TRUE]
        ELSE [st |-> mixKey(st, dh(priv, other)), thrown |-> FALSE]

\* One token of writeMessage's loop; r = [st, msg, thrown].
writeToken(r, token, eph) ==
    IF token = "e"
    THEN [st |-> mixHash([r.st EXCEPT !.localEphemeral = eph], pub(eph)),
          msg |-> concat(r.msg, Block(32, pub(eph))), thrown |-> FALSE]
    ELSE IF token = "s"
    THEN LET x == encryptAndHash(r.st, Block(32, pub(r.st.localStatic)))
         IN  [st |-> x.st, msg |-> concat(r.msg, x.out), thrown |-> FALSE]
    ELSE LET x == dhToken(r.st, token)
         IN  [st |-> x.st, msg |-> r.msg, thrown |-> x.thrown]

RECURSIVE writeTokens(_, _, _)
writeTokens(r, tokens, eph) ==
    IF r.thrown \/ tokens = <<>> THEN r
    ELSE writeTokens(writeToken(r, Head(tokens), eph), Tail(tokens), eph)

\* NoiseProtocol.writeMessage(state) with an empty payload; eph is the
\* ephemeral key pair generateEphemeralKeyPair() would return.  The state is
\* mutated in place, so a throw leaves the tokens already processed applied.
writeMessage(state, eph) ==
    IF state.isComplete
    THEN [st |-> state, msg |-> <<>>, thrown |-> TRUE]
    ELSE
      LET patternIndex == IF state.role = "initiator"
                          THEN (IF state.messageIndex = 0 THEN 0 ELSE 2)
                          ELSE 1
          r == writeTokens([st |-> state, msg |-> <<>>, thrown |-> FALSE],
                           XX_PATTERN[patternIndex + 1], eph)
          x == encryptAndHash(r.st, EmptyBlock)
          idx == r.st.messageIndex + 1
      IN  IF r.thrown THEN r
          ELSE [st |-> [x.st EXCEPT !.messageIndex = idx, !.isComplete = (idx >= 3)],
                msg |-> concat(r.msg, x.out), thrown |-> FALSE]

\* One token of readMessage's loop; r = [st, offset, thrown].
readToken(r, token, message) ==
    IF token = "e"
    THEN IF msgLength(message) < r.offset + 32
         THEN [r EXCEPT !.thrown = TRUE]
         ELSE LET re == slice(message, r.offset, 32).val
              IN  [st |-> mixHash([r.st EXCEPT !.remoteEphemeral = re], re),
                   offset |-> r.offset + 32, thrown |-> FALSE]
    ELSE IF token = "s"
    THEN LET encryptedStaticLength == IF r.st.k # Null THEN 32 + 16 ELSE 32
         IN  IF msgLength(message) < r.offset + encryptedStaticLength
             THEN [r EXCEPT !.thrown = TRUE]
             ELSE LET x == decryptAndHash(r.st,
                               slice(message, r.offset, encryptedStaticLength))
                  IN  IF x.thrown
                      THEN [st |-> x.st, offset |-> r.offset + encryptedStaticLength,
                            thrown |-> TRUE]
                      ELSE [st |-> [x.st EXCEPT !.remoteStatic = x.out.val],
                            offset |-> r.offset + encryptedStaticLength,
                            thrown |-> FALSE]
    ELSE LET x == dhToken(r.st, token)
         IN  [st |-> x.st, offset |-> r.offset, thrown |-> x.thrown]

RECURSIVE readTokens(_, _, _)
readTokens(r, tokens, message) ==
    IF r.thrown \/ tokens = <<>> THEN r
    ELSE readTokens(readToken(r, Head(tokens), message), Tail(tokens), message)

\* NoiseProtocol.readMessage(state, message): the new state and, when the
\* read completes the handshake, the session it returns.
readMessage(state, message) ==
    IF state.isComplete
    THEN [st |-> state, thrown |-> TRUE, hasSession |-> FALSE, session |-> NoSession]
    ELSE
      LET isInitiator == state.role = "initiator"
          patternIndex == IF isInitiator THEN 1
                          ELSE (IF state.messageIndex = 0 THEN 0 ELSE 2)
          r == readTokens([st |-> state, offset |-> 0, thrown |-> FALSE],
                          XX_PATTERN[patternIndex + 1], message)
          rest == msgLength(message) - r.offset
          x == decryptAndHash(r.st, slice(message, r.offset, rest))
          idx == x.st.messageIndex + 1
          st2 == [x.st EXCEPT !.messageIndex = idx, !.isComplete = (idx >= 3)]
          c == split(st2)
      IN  IF r.thrown \/ x.thrown
          THEN [st |-> IF r.thrown THEN r.st ELSE x.st, thrown |-> TRUE,
                hasSession |-> FALSE, session |-> NoSession]
          ELSE [st |-> st2, thrown |-> FALSE, hasSession |-> idx >= 3,
                session |-> IF idx >= 3
                            THEN [sendKey |-> IF isInitiator THEN c[1] ELSE c[2],
                                  sendNonce |-> 0,
                                  receiveKey |-> IF isInitiator THEN c[2] ELSE c[1],
                                  receiveNonce |-> 0,
                                  handshakeHash |-> st2.h,
                                  remoteStaticPublicKey |-> st2.remoteStatic]
                            ELSE NoSession]

(***************************************************************************)
(* NoiseProtocol driven directly: one initiator state and one responder    *)
(* state, on which writeMessage and readMessage are called in any order,   *)
(* readMessage with any message written so far.                            *)
(***************************************************************************)
MaxNoiseOps == 5

Roles == {"initiator", "responder"}

\* Private-key numbers: statics are 1 (initiator) and 2 (responder);
\* the i-th ephemeral key pair generated is EphBase + i.
EphBase == 10

StaticOf(role) == IF role = "initiator" THEN 1 ELSE 2

\* clean: no earlier call on either state has thrown.
NoCall == [who |-> "none", op |-> "none", index |-> 0, complete |-> FALSE,
           threw |-> FALSE, clean |-> TRUE]

NoiseInit ==
    /\ nState = [r \in Roles |-> createHandshakeState(r, StaticOf(r))]
    /\ nPool = <<>>
    /\ nLast = NoCall
    /\ nEph = 0

\* NoiseProtocol.writeMessage(state) called on role who's state.
NoiseWrite(who) ==
    LET r == writeMessage(nState[who], EphBase + nEph + 1)
    IN  /\ nEph < MaxNoiseOps
        /\ nState' = [nState EXCEPT ![who] = r.st]
        /\ nPool' = IF r.thrown THEN nPool ELSE Append(nPool, r.msg)
        /\ nLast' = [who |-> who, op |-> "write",
                     index |-> nState[who].messageIndex,
                     complete |-> nState[who].isComplete, threw |-> r.thrown,
                     clean |-> nLast.clean /\ ~nLast.threw]
        /\ nEph' = nEph + 1
        /\ UNCHANGED noiseFrame

\* NoiseProtocol.readMessage(state, message) called on role who's state.
NoiseRead(who, i) ==
    LET r == readMessage(nState[who], nPool[i])
    IN  /\ nEph < MaxNoiseOps
        /\ nState' = [nState EXCEPT ![who] = r.st]
        /\ nLast' = [who |-> who, op |-> "read",
                     index |-> nState[who].messageIndex,
                     complete |-> nState[who].isComplete, threw |-> r.thrown,
                     clean |-> nLast.clean /\ ~nLast.threw]
        /\ nEph' = nEph + 1
        /\ UNCHANGED <<nPool, noiseFrame>>

NoiseNext ==
    \/ \E who \in Roles : NoiseWrite(who)
    \/ \E who \in Roles, i \in 1..Len(nPool) : NoiseRead(who, i)

(***************************************************************************)
(* NoiseSessionManager.  Every node runs one manager; a manager's maps are *)
(* keyed by the peer's id.  The operators below work on a manager value    *)
(* M = [pending, sessions, events, out, threw]: the two maps, the events   *)
(* emitted so far per peer, the handshake messages the call emitted, and   *)
(* whether the call threw.                                                 *)
(***************************************************************************)
\* All node ids, and the two nodes between which most specifications run.
AllNodes == {1, 2, 3}

Nodes == {1, 2}

handshakeTimeout == 30000

sessionTimeout == 3600000

cleanupInterval == 60000

NoHandshake ==
    [present |-> FALSE, state |-> createHandshakeState("none", 0),
     createdAt |-> 0, timeoutTimer |-> FALSE]

\* HandshakeInfo with the timeout timer never armed.
HandshakeInfoNoTimer(state, now) ==
    [present |-> TRUE, state |-> state, createdAt |-> now, timeoutTimer |-> FALSE]

\* A HandshakeInfo as both roles build it: createdAt = new Date() and the
\* timeout timer armed for handshakeTimeout ms.
HandshakeInfo(state, now) ==
    [present |-> TRUE, state |-> state, createdAt |-> now, timeoutTimer |-> TRUE]

NoSessionInfo ==
    [present |-> FALSE, session |-> NoSession, createdAt |-> 0,
     lastActivity |-> 0, handshakeState |-> "none"]

NoEvents ==
    [sessionEstablished |-> 0, isInitiator |-> FALSE, handshakeFailed |-> 0,
     reason |-> "", sessionClosed |-> 0, handshakeMessage |-> <<>>, packet |-> 0]

\* The manager value of node a at the start of a call.
Manager(a) ==
    [pending |-> mPending[a], sessions |-> mSessions[a], events |-> mEvents[a],
     out |-> <<>>, threw |-> FALSE]

\* this.emit('handshakeMessage', {peerID, type, message})
emitHandshakeMessage(M, peerID, type, message) ==
    [M EXCEPT !.out = Append(@, [type |-> type, message |-> message]),
              !.events[peerID].handshakeMessage = Append(@, type)]

\* cancelHandshake that emits handshakeFailed but leaves the handshake pending.
cancelHandshakeKeepsPending(M, peerID, reason) ==
    IF ~M.pending[peerID].present THEN M
    ELSE [M EXCEPT !.events[peerID].handshakeFailed = @ + 1,
                   !.events[peerID].reason = reason]

\* NoiseSessionManager.cancelHandshake(peerID, reason)
cancelHandshake(M, peerID, reason) ==
    IF ~M.pending[peerID].present THEN M
    ELSE [M EXCEPT !.pending[peerID] = NoHandshake,
                   !.events[peerID].handshakeFailed = @ + 1,
                   !.events[peerID].reason = reason]

\* completeHandshake reading the role after the handshake state was cleared.
completeHandshakeRoleCleared(M, peerID, session, now) ==
    IF ~M.pending[peerID].present THEN M
    ELSE [M EXCEPT !.pending[peerID] = NoHandshake,
                   !.sessions[peerID] =
                       [present |-> TRUE, session |-> session, createdAt |-> now,
                        lastActivity |-> now, handshakeState |-> "completed"],
                   !.events[peerID].sessionEstablished = @ + 1,
                   !.events[peerID].isInitiator = FALSE]

\* completeHandshake that deletes every pending handshake of the manager.
completeHandshakeDropsOthers(M, peerID, session, now) ==
    IF ~M.pending[peerID].present THEN M
    ELSE [M EXCEPT !.pending = [q \in AllNodes |-> NoHandshake],
                   !.sessions[peerID] =
                       [present |-> TRUE, session |-> session, createdAt |-> now,
                        lastActivity |-> now, handshakeState |-> "completed"],
                   !.events[peerID].sessionEstablished = @ + 1,
                   !.events[peerID].isInitiator =
                       (M.pending[peerID].state.role = "initiator")]

\* completeHandshake that leaves the handshake, and its timer, in
\* pendingHandshakes.
completeHandshakeKeepsPending(M, peerID, session, now) ==
    IF ~M.pending[peerID].present THEN M
    ELSE [M EXCEPT !.sessions[peerID] =
                       [present |-> TRUE, session |-> session, createdAt |-> now,
                        lastActivity |-> now, handshakeState |-> "completed"],
                   !.events[peerID].sessionEstablished = @ + 1,
                   !.events[peerID].isInitiator =
                       (M.pending[peerID].state.role = "initiator")]

\* NoiseSessionManager.completeHandshake(peerID, session)
completeHandshake(M, peerID, session, now) ==
    IF ~M.pending[peerID].present THEN M
    ELSE [M EXCEPT !.pending[peerID] = NoHandshake,
                   !.sessions[peerID] =
                       [present |-> TRUE, session |-> session, createdAt |-> now,
                        lastActivity |-> now, handshakeState |-> "completed"],
                   !.events[peerID].sessionEstablished = @ + 1,
                   !.events[peerID].isInitiator =
                       (M.pending[peerID].state.role = "initiator")]

\* initiateHandshake, "Generate first message": w is what writeMessage did.
initiateWritten(M, peerID, w, now) ==
    IF w.thrown
    THEN [cancelHandshake([M EXCEPT !.pending[peerID] = HandshakeInfo(w.st, now)],
                          peerID, "Handshake initiation failed")
              EXCEPT !.threw = TRUE]
    ELSE emitHandshakeMessage([M EXCEPT !.pending[peerID] = HandshakeInfo(w.st, now)],
                              peerID, NOISE_HANDSHAKE_INIT, w.msg)

\* initiateHandshake that records the session when the handshake starts.
initiateHandshakeEarlySession(M, localStatic, peerID, now, eph) ==
    IF M.pending[peerID].present
    THEN [M EXCEPT !.threw = TRUE]
    ELSE [initiateWritten(M, peerID,
              writeMessage(createHandshakeState("initiator", localStatic), eph), now)
            EXCEPT !.sessions[peerID] =
                       [present |-> TRUE, session |-> NoSession, createdAt |-> now,
                        lastActivity |-> now, handshakeState |-> "initiated"]]

\* initiateHandshake without the check for a handshake in progress.
initiateHandshakeOverwrites(M, localStatic, peerID, now, eph) ==
    initiateWritten(M, peerID,
        writeMessage(createHandshakeState("initiator", localStatic), eph), now)

\* NoiseSessionManager.initiateHandshake(peerID)
initiateHandshake(M, localStatic, peerID, now, eph) ==
    IF M.pending[peerID].present
    THEN [M EXCEPT !.threw = TRUE]
    ELSE initiateWritten(M, peerID,
             writeMessage(createHandshakeState("initiator", localStatic), eph), now)

\* The initiator's session with the two ciphers of split() taken the other
\* way round.
initiatorSessionSwapped(state) ==
    [sendKey |-> split(state)[2], sendNonce |-> 0,
     receiveKey |-> split(state)[1], receiveNonce |-> 0,
     handshakeHash |-> state.h, remoteStaticPublicKey |-> state.remoteStatic]

\* The session the initiator builds after writing message 3
\* (processHandshakeMessage, "Check if we're now complete").
initiatorSession(state) ==
    [sendKey |-> split(state)[1], sendNonce |-> 0,
     receiveKey |-> split(state)[2], receiveNonce |-> 0,
     handshakeHash |-> state.h, remoteStaticPublicKey |-> state.remoteStatic]

\* processHandshakeMessage, the catch block.
processFailed(M, peerID, state) ==
    [cancelHandshake([M EXCEPT !.pending[peerID].state = state], peerID,
                     "Handshake processing failed")
        EXCEPT !.threw = TRUE]

\* processHandshakeMessage, "Need to send next message": w is what
\* writeMessage did.
processWritten(M, peerID, nextMessageType, w, now) ==
    IF w.thrown
    THEN processFailed(M, peerID, w.st)
    ELSE IF w.st.isComplete
    THEN completeHandshake(
             emitHandshakeMessage([M EXCEPT !.pending[peerID].state = w.st],
                                  peerID, nextMessageType, w.msg),
             peerID, initiatorSession(w.st), now)
    ELSE emitHandshakeMessage([M EXCEPT !.pending[peerID].state = w.st],
                              peerID, nextMessageType, w.msg)

\* processHandshakeMessage, the try block: r is what readMessage did.
processRead(M, peerID, r, now, eph) ==
    IF r.thrown
    THEN processFailed(M, peerID, r.st)
    ELSE IF r.hasSession
    THEN completeHandshake([M EXCEPT !.pending[peerID].state = r.st],
                           peerID, r.session, now)
    ELSE processWritten(M, peerID,
                        IF r.st.role = "initiator"
                        THEN NOISE_ENCRYPTED ELSE NOISE_HANDSHAKE_RESP,
                        writeMessage(r.st, eph), now)

\* processHandshakeMessage once the HandshakeInfo has been looked up or made.
processPending(M, peerID, message, now, eph) ==
    IF ~M.pending[peerID].present
    THEN [M EXCEPT !.threw = TRUE]
    ELSE processRead(M, peerID, readMessage(M.pending[peerID].state, message),
                     now, eph)

\* processHandshakeMessage that answers an INIT as responder even while a
\* handshake it initiated itself is pending.
processHandshakeMessageResponds(M, localStatic, peerID, messageType, message, now, eph) ==
    processPending(
        IF messageType = NOISE_HANDSHAKE_INIT
        THEN [M EXCEPT !.pending[peerID] =
                 HandshakeInfo(createHandshakeState("responder", localStatic), now)]
        ELSE M,
        peerID, message, now, eph)

\* NoiseSessionManager.processHandshakeMessage(peerID, messageType, message)
processHandshakeMessage(M, localStatic, peerID, messageType, message, now, eph) ==
    processPending(
        IF ~M.pending[peerID].present /\ messageType = NOISE_HANDSHAKE_INIT
        THEN [M EXCEPT !.pending[peerID] =
                 HandshakeInfo(createHandshakeState("responder", localStatic), now)]
        ELSE M,
        peerID, message, now, eph)

\* closeSession that emits sessionClosed but keeps the record and its keys.
closeSessionKeepsRecord(M, peerID) ==
    cancelHandshake(IF M.sessions[peerID].present
                    THEN [M EXCEPT !.events[peerID].sessionClosed = @ + 1]
                    ELSE M,
                    peerID, "Session closed")

\* NoiseSessionManager.closeSession(peerID), with NoiseProtocol.clearSession
closeSession(M, peerID) ==
    cancelHandshake(IF M.sessions[peerID].present
                    THEN [M EXCEPT !.sessions[peerID] = NoSessionInfo,
                                   !.events[peerID].sessionClosed = @ + 1]
                    ELSE M,
                    peerID, "Session closed")

\* encryptMessage without the check for an established session.
encryptMessageUnchecked(M, peerID, plaintext, now) ==
    [M EXCEPT !.sessions[peerID].lastActivity = now,
              !.sessions[peerID].session.sendNonce = @ + 1,
              !.out = <<encryptWithAd(M.sessions[peerID].session.sendKey,
                                      M.sessions[peerID].session.sendNonce,
                                      <<>>, plaintext)>>]

\* NoiseSessionManager.encryptMessage(peerID, plaintext): out holds the
\* ciphertext.
encryptMessage(M, peerID, plaintext, now) ==
    IF ~M.sessions[peerID].present
       \/ M.sessions[peerID].handshakeState # "completed"
    THEN [M EXCEPT !.threw = TRUE]
    ELSE [M EXCEPT !.sessions[peerID].lastActivity = now,
                   !.sessions[peerID].session.sendNonce = @ + 1,
                   !.out = <<encryptWithAd(M.sessions[peerID].session.sendKey,
                                           M.sessions[peerID].session.sendNonce,
                                           <<>>, plaintext)>>]

\* decryptMessage whose successful decryption leaves the receive nonce as it
\* was.
decryptedNoAdvance(M, peerID, d, now) ==
    IF d.thrown
    THEN [M EXCEPT !.sessions[peerID].lastActivity = now, !.threw = TRUE]
    ELSE [M EXCEPT !.sessions[peerID].lastActivity = now, !.out = <<d.out>>]

\* decryptMessage after the session check: d is what decryptWithAd did.
decrypted(M, peerID, d, now) ==
    IF d.thrown
    THEN [M EXCEPT !.sessions[peerID].lastActivity = now, !.threw = TRUE]
    ELSE [M EXCEPT !.sessions[peerID].lastActivity = now,
                   !.sessions[peerID].session.receiveNonce = @ + 1,
                   !.out = <<d.out>>]

\* NoiseSessionManager.decryptMessage(peerID, ciphertext): out holds the
\* plaintext.
decryptMessage(M, peerID, ciphertext, now) ==
    IF ~M.sessions[peerID].present
       \/ M.sessions[peerID].handshakeState # "completed"
    THEN [M EXCEPT !.threw = TRUE]
    ELSE decrypted(M, peerID,
                   decryptWithAd(M.sessions[peerID].session.receiveKey,
                                 M.sessions[peerID].session.receiveNonce,
                                 <<>>, ciphertext),
                   now)

\* cleanup() whose first loop closes nothing.
closeExpiredNone(M, peers, now) == M

RECURSIVE closeExpired(_, _, _)
\* cleanup(), first loop: close every session idle for more than sessionTimeout.
closeExpired(M, peers, now) ==
    IF peers = {} THEN M
    ELSE LET p == CHOOSE x \in peers : TRUE
             M1 == IF M.sessions[p].present
                      /\ now - M.sessions[p].lastActivity > sessionTimeout
                   THEN closeSession(M, p) ELSE M
         IN  closeExpired(M1, peers \ {p}, now)

RECURSIVE cancelStale(_, _, _)
\* cleanup(), second loop: cancel every handshake older than handshakeTimeout.
cancelStale(M, peers, now) ==
    IF peers = {} THEN M
    ELSE LET p == CHOOSE x \in peers : TRUE
             M1 == IF M.pending[p].present
                      /\ now - M.pending[p].createdAt > handshakeTimeout
                   THEN cancelHandshake(M, p, "Handshake expired") ELSE M
         IN  cancelStale(M1, peers \ {p}, now)

\* NoiseSessionManager.cleanup()
cleanup(M, now) == cancelStale(closeExpired(M, AllNodes, now), AllNodes, now)

(***************************************************************************)
(* The managers of all nodes, the packets in flight between them, and the  *)
(* clock.  A packet in flight is [type, message]; the message is a         *)
(* sequence of blocks.  Handshake packets reach processHandshakeMessage    *)
(* and MESSAGE packets reach TransportManager.handlePacket.                *)
(***************************************************************************)
MaxInitiations == 1

MaxData == 3

MaxDisruptions == 1

MaxTicks == 2

TickMs == 30 * 1000

HandshakeTypes == {NOISE_HANDSHAKE_INIT, NOISE_HANDSHAKE_RESP, NOISE_ENCRYPTED}

\* The local static key pair of node a, and its k-th ephemeral key pair.
LocalStatic(a) == a

Ephemeral(a, k) == a * EphBase + k

Pairs == {p \in Nodes \X Nodes : p[1] # p[2]}

NoBudget == [initiated |-> <<>>, data |-> 0, disruptions |-> 0, sleeps |-> 0]

NoOutcome ==
    [op |-> "none", node |-> 0, peer |-> 0, type |-> 0, threw |-> FALSE,
     role |-> "none", index |-> 0, hadPending |-> FALSE, hadSession |-> FALSE,
     hasPending |-> FALSE, hasSession |-> FALSE, handshakeFailed |-> 0,
     sessionEstablished |-> 0, sessionClosed |-> 0, handshakeMessage |-> 0,
     reason |-> ""]

\* What the call op(peer, type) on node a's manager did: M is the manager
\* after the call.
Outcome(op, a, peer, type, M) ==
    [op |-> op, node |-> a, peer |-> peer, type |-> type, threw |-> M.threw,
     role |-> mPending[a][peer].state.role,
     index |-> mPending[a][peer].state.messageIndex,
     hadPending |-> mPending[a][peer].present,
     hadSession |-> mSessions[a][peer].present,
     hasPending |-> M.pending[peer].present,
     hasSession |-> M.sessions[peer].present,
     handshakeFailed |->
         M.events[peer].handshakeFailed - mEvents[a][peer].handshakeFailed,
     sessionEstablished |->
         M.events[peer].sessionEstablished - mEvents[a][peer].sessionEstablished,
     sessionClosed |->
         M.events[peer].sessionClosed - mEvents[a][peer].sessionClosed,
     handshakeMessage |->
         Len(M.events[peer].handshakeMessage) - Len(mEvents[a][peer].handshakeMessage),
     reason |-> M.events[peer].reason]

ManagerInit ==
    /\ mPending = [a \in AllNodes |-> [b \in AllNodes |-> NoHandshake]]
    /\ mSessions = [a \in AllNodes |-> [b \in AllNodes |-> NoSessionInfo]]
    /\ mEvents = [a \in AllNodes |-> [b \in AllNodes |-> NoEvents]]
    /\ mNet = [a \in AllNodes |-> [b \in AllNodes |-> <<>>]]
    /\ mNow = 0
    /\ mCleanupAt = [a \in AllNodes |-> cleanupInterval]
    /\ mEph = [a \in AllNodes |-> 0]
    /\ mBudget = NoBudget
    /\ mLast = NoOutcome

\* Node a's manager becomes M after the call op(peer, type).
Called(op, a, peer, type, M) ==
    /\ mPending' = [mPending EXCEPT ![a] = M.pending]
    /\ mSessions' = [mSessions EXCEPT ![a] = M.sessions]
    /\ mEvents' = [mEvents EXCEPT ![a] = M.events]
    /\ mLast' = Outcome(op, a, peer, type, M)

\* The same, and the handshake messages the call emitted go to the peer.  A
\* call that made a new HandshakeInfo has used up the ephemeral key pair
\* offered to it.
CalledAndSent(op, a, peer, type, M, net) ==
    /\ Called(op, a, peer, type, M)
    /\ mNet' = [net EXCEPT ![a][peer] = @ \o M.out]
    /\ mEph' = [mEph EXCEPT ![a] =
                   IF M.threw /\ mPending[a][peer].present THEN @ ELSE
                   IF op = "encryptMessage" \/ mPending[a][peer].present THEN @
                   ELSE @ + 1]

\* await manager.initiateHandshake(peer) on node a.
InitiateHandshake(a, peer) ==
    /\ Len(mBudget.initiated) < MaxInitiations
    /\ CalledAndSent("initiateHandshake", a, peer, NOISE_HANDSHAKE_INIT,
                     initiateHandshake(Manager(a), LocalStatic(a), peer, mNow,
                                       Ephemeral(a, mEph[a] + 1)),
                     mNet)
    /\ mBudget' = [mBudget EXCEPT !.initiated = Append(@, <<a, peer>>)]
    /\ UNCHANGED <<mNow, mCleanupAt, managerFrame>>

\* The next packet from peer reaches node a and is a handshake packet:
\* await manager.processHandshakeMessage(peer, type, message).
ProcessHandshakeMessage(a, peer) ==
    /\ mNet[peer][a] # <<>>
    /\ Head(mNet[peer][a]).type \in HandshakeTypes
    /\ CalledAndSent("processHandshakeMessage", a, peer, Head(mNet[peer][a]).type,
                     processHandshakeMessage(Manager(a), LocalStatic(a), peer,
                                             Head(mNet[peer][a]).type,
                                             Head(mNet[peer][a]).message, mNow,
                                             Ephemeral(a, mEph[a] + 1)),
                     [mNet EXCEPT ![peer][a] = Tail(@)])
    /\ UNCHANGED <<mNow, mCleanupAt, mBudget, managerFrame>>

\* The MESSAGE packet carrying the ciphertext encryptMessage returned.
DataPackets(out) == [i \in 1..Len(out) |-> [type |-> MESSAGE, message |-> <<out[i]>>]]

\* TransportManager.sendPacket's encryption step for a MESSAGE to a peer with
\* a completed session; the ciphertext travels as the packet's payload.
SendMessage(a, peer) ==
    /\ mBudget.data < MaxData
    /\ mSessions[a][peer].present
    /\ mSessions[a][peer].handshakeState = "completed"
    /\ CalledAndSent("encryptMessage", a, peer, MESSAGE,
                     [encryptMessage(Manager(a), peer, Block(1, <<mBudget.data>>), mNow)
                         EXCEPT !.out = DataPackets(@)],
                     mNet)
    /\ mBudget' = [mBudget EXCEPT !.data = @ + 1]
    /\ UNCHANGED <<mNow, mCleanupAt, managerFrame>>

\* handlePacket after the decryption step: emit 'packet' unless it returned.
handled(M, peer) ==
    IF M.threw THEN M ELSE [M EXCEPT !.events[peer].packet = @ + 1]

\* TransportManager.handlePacket for a MESSAGE packet from peer: decrypt when
\* a completed session exists; on a decryption error log and return, and
\* otherwise emit 'packet'.
HandlePacket(a, peer) ==
    /\ mNet[peer][a] # <<>>
    /\ Head(mNet[peer][a]).type = MESSAGE
    /\ Called("handlePacket", a, peer, MESSAGE,
              handled(IF mSessions[a][peer].present
                         /\ mSessions[a][peer].handshakeState = "completed"
                      THEN decryptMessage(Manager(a), peer,
                                          Head(Head(mNet[peer][a]).message), mNow)
                      ELSE Manager(a),
                      peer))
    /\ mNet' = [mNet EXCEPT ![peer][a] = Tail(@)]
    /\ UNCHANGED <<mNow, mCleanupAt, mEph, mBudget, managerFrame>>

\* manager.closeSession(peer) on node a, which has a session or a handshake
\* with peer.
CloseSession(a, peer) ==
    /\ mBudget.disruptions < MaxDisruptions
    /\ (mSessions[a][peer].present \/ mPending[a][peer].present)
    /\ Called("closeSession", a, peer, 0, closeSession(Manager(a), peer))
    /\ mBudget' = [mBudget EXCEPT !.disruptions = @ + 1]
    /\ UNCHANGED <<mNet, mNow, mCleanupAt, mEph, managerFrame>>

\* The timeout timer of node a's handshake with peer fires:
\* this.cancelHandshake(peerID, 'Handshake timeout').
HandshakeTimeout(a, peer) ==
    /\ mPending[a][peer].present
    /\ mPending[a][peer].timeoutTimer
    /\ mNow >= mPending[a][peer].createdAt + handshakeTimeout
    /\ Called("timeout", a, peer, 0,
              cancelHandshake(Manager(a), peer, "Handshake timeout"))
    /\ UNCHANGED <<mNet, mNow, mCleanupAt, mEph, mBudget, managerFrame>>

\* The cleanup interval timer of node a fires (startCleanupTimer).
CleanupTimer(a) ==
    /\ mNow >= mCleanupAt[a]
    /\ Called("cleanup", a, a, 0, cleanup(Manager(a), mNow))
    /\ mCleanupAt' = [mCleanupAt EXCEPT ![a] = @ + cleanupInterval]
    /\ UNCHANGED <<mNet, mNow, mEph, mBudget, managerFrame>>

\* Time passes, but never beyond the moment an armed timer is due.
Tick ==
    /\ mNow + TickMs <= MaxTicks * TickMs
    /\ \A a \in Nodes : mNow + TickMs <= mCleanupAt[a]
    /\ \A p \in Pairs :
          (mPending[p[1]][p[2]].present /\ mPending[p[1]][p[2]].timeoutTimer)
              => mNow + TickMs <= mPending[p[1]][p[2]].createdAt + handshakeTimeout
    /\ mNow' = mNow + TickMs
    /\ mLast' = NoOutcome
    /\ UNCHANGED <<mPending, mSessions, mEvents, mNet, mCleanupAt, mEph, mBudget,
                   managerFrame>>

\* The link loses the next packet from a to peer.
Lose(a, peer) ==
    /\ mBudget.disruptions < MaxDisruptions
    /\ mNet[a][peer] # <<>>
    /\ mNet' = [mNet EXCEPT ![a][peer] = Tail(@)]
    /\ mBudget' = [mBudget EXCEPT !.disruptions = @ + 1]
    /\ mLast' = NoOutcome
    /\ UNCHANGED <<mPending, mSessions, mEvents, mNow, mCleanupAt, mEph, managerFrame>>

\* The bytes of block b with some of them changed in transit.
corrupted(b) == Block(b.len, <<7>> \o b.val)

\* The link corrupts the last block of the next packet from a to peer.
Corrupt(a, peer) ==
    /\ mBudget.disruptions < MaxDisruptions
    /\ mNet[a][peer] # <<>>
    /\ Head(mNet[a][peer]).message # <<>>
    /\ LET pkt == Head(mNet[a][peer])
           n == Len(pkt.message)
       IN  mNet' = [mNet EXCEPT ![a][peer] =
                       <<[pkt EXCEPT !.message[n] = corrupted(@)]>> \o Tail(@)]
    /\ mBudget' = [mBudget EXCEPT !.disruptions = @ + 1]
    /\ mLast' = NoOutcome
    /\ UNCHANGED <<mPending, mSessions, mEvents, mNow, mCleanupAt, mEph, managerFrame>>

ManagerNext ==
    \/ \E p \in Pairs : InitiateHandshake(p[1], p[2])
    \/ \E p \in Pairs : ProcessHandshakeMessage(p[1], p[2])
    \/ \E p \in Pairs : CloseSession(p[1], p[2])
    \/ \E p \in Pairs : HandshakeTimeout(p[1], p[2])
    \/ \E a \in Nodes : CleanupTimer(a)
    \/ Tick
    \/ \E p \in Pairs : Lose(p[1], p[2])
    \/ \E p \in Pairs : Corrupt(p[1], p[2])

\* Handshakes and encrypted messages over a link that may lose or corrupt a
\* packet, with no time passing.
TransportNext ==
    \/ \E p \in Pairs : InitiateHandshake(p[1], p[2])
    \/ \E p \in Pairs : ProcessHandshakeMessage(p[1], p[2])
    \/ \E p \in Pairs : SendMessage(p[1], p[2])
    \/ \E p \in Pairs : HandlePacket(p[1], p[2])
    \/ \E p \in Pairs : Lose(p[1], p[2])
    \/ \E p \in Pairs : Corrupt(p[1], p[2])

\* No handshake packet is in flight between a and peer.
Delivered(a, peer) ==
    /\ \A i \in 1..Len(mNet[a][peer]) : mNet[a][peer][i].type = MESSAGE
    /\ \A i \in 1..Len(mNet[peer][a]) : mNet[peer][a][i].type = MESSAGE

\* One peer calls initiateHandshake while no handshake between the two is
\* under way.
InitiateQuiet(a, peer) ==
    /\ ~mPending[a][peer].present
    /\ ~mPending[peer][a].present
    /\ Delivered(a, peer)
    /\ InitiateHandshake(a, peer)

\* A channel that delivers every packet unmodified and in order, with no
\* time passing.
ReliableNext ==
    \/ \E p \in Pairs : InitiateQuiet(p[1], p[2])
    \/ \E p \in Pairs : ProcessHandshakeMessage(p[1], p[2])
    \/ \E p \in Pairs : SendMessage(p[1], p[2])
    \/ \E p \in Pairs : HandlePacket(p[1], p[2])

(***************************************************************************)
(* The manager's API called directly and in any order, as its callers and  *)
(* its tests may: initiateHandshake whether or not a handshake or a        *)
(* session exists, encryptMessage and decryptMessage whether or not a      *)
(* session exists.                                                         *)
(***************************************************************************)
MaxHandshakes == 2

\* await manager.initiateHandshake(peer) on node a, at any moment.
InitiateAnother(a, peer) ==
    /\ Len(mBudget.initiated) < MaxHandshakes
    /\ CalledAndSent("initiateHandshake", a, peer, NOISE_HANDSHAKE_INIT,
                     initiateHandshake(Manager(a), LocalStatic(a), peer, mNow,
                                       Ephemeral(a, mEph[a] + 1)),
                     mNet)
    /\ mBudget' = [mBudget EXCEPT !.initiated = Append(@, <<a, peer>>)]
    /\ UNCHANGED <<mNow, mCleanupAt, managerFrame>>

\* manager.encryptMessage(peer, plaintext) on node a; the ciphertext it
\* returns is sent to the peer as a MESSAGE packet.
EncryptMessage(a, peer) ==
    /\ mBudget.data < MaxData
    /\ CalledAndSent("encryptMessage", a, peer, MESSAGE,
                     [encryptMessage(Manager(a), peer, Block(1, <<mBudget.data>>), mNow)
                         EXCEPT !.out = DataPackets(@)],
                     mNet)
    /\ mBudget' = [mBudget EXCEPT !.data = @ + 1]
    /\ UNCHANGED <<mNow, mCleanupAt, managerFrame>>

\* The next packet from peer reaches node a and is a MESSAGE:
\* manager.decryptMessage(peer, ciphertext).
DecryptMessage(a, peer) ==
    /\ mNet[peer][a] # <<>>
    /\ Head(mNet[peer][a]).type = MESSAGE
    /\ Called("decryptMessage", a, peer, MESSAGE,
              decryptMessage(Manager(a), peer,
                             Head(Head(mNet[peer][a]).message), mNow))
    /\ mNet' = [mNet EXCEPT ![peer][a] = Tail(@)]
    /\ UNCHANGED <<mNow, mCleanupAt, mEph, mBudget, managerFrame>>

SessionsNext ==
    \/ \E p \in Pairs : InitiateAnother(p[1], p[2])
    \/ \E p \in Pairs : ProcessHandshakeMessage(p[1], p[2])
    \/ \E p \in Pairs : EncryptMessage(p[1], p[2])
    \/ \E p \in Pairs : DecryptMessage(p[1], p[2])
    \/ \E p \in Pairs : CloseSession(p[1], p[2])

(***************************************************************************)
(* The managers over hours.  Time passes in steps of TickMs or             *)
(* LongSleepMs, never beyond the moment a handshake timer is due; the      *)
(* cleanup interval fires every cleanupInterval ms, and a step of time may *)
(* pass over firings of it only if they find nothing to close or cancel.   *)
(***************************************************************************)
MaxSleeps == 4

MaxSweepMessages == 2

LongSleepMs == 30 * 60 * 1000

\* The last firing time of the cleanup interval before t.
LastSweepBefore(t) == ((t - 1) \div cleanupInterval) * cleanupInterval

\* The first firing time of the cleanup interval at or after t.
NextSweepFrom(t) ==
    ((t + cleanupInterval - 1) \div cleanupInterval) * cleanupInterval

Sleep(ms) ==
    /\ mBudget.sleeps < MaxSleeps
    /\ \A p \in Pairs :
          (mPending[p[1]][p[2]].present /\ mPending[p[1]][p[2]].timeoutTimer)
              => mNow + ms <= mPending[p[1]][p[2]].createdAt + handshakeTimeout
    /\ \A a \in Nodes :
          LastSweepBefore(mNow + ms) >= mCleanupAt[a]
              => cleanup(Manager(a), LastSweepBefore(mNow + ms)) = Manager(a)
    /\ mNow' = mNow + ms
    /\ mCleanupAt' = [a \in AllNodes |-> NextSweepFrom(mNow + ms)]
    /\ mBudget' = [mBudget EXCEPT !.sleeps = @ + 1]
    /\ mLast' = NoOutcome
    /\ UNCHANGED <<mPending, mSessions, mEvents, mNet, mEph, managerFrame>>

SweepNext ==
    \/ \E p \in Pairs : InitiateHandshake(p[1], p[2])
    \/ \E p \in Pairs : ProcessHandshakeMessage(p[1], p[2])
    \/ \E p \in Pairs : mBudget.data < MaxSweepMessages /\ EncryptMessage(p[1], p[2])
    \/ \E p \in Pairs : DecryptMessage(p[1], p[2])
    \/ \E p \in Pairs : HandshakeTimeout(p[1], p[2])
    \/ \E a \in Nodes : CleanupTimer(a)
    \/ \E ms \in {TickMs, LongSleepMs} : Sleep(ms)

(***************************************************************************)
(* One manager with two peers: node 1 is linked with nodes 2 and 3, and    *)
(* handshakes and messages of the two links interleave in any order.  A    *)
(* ciphertext may also be handed to decryptMessage under the session of    *)
(* another peer than the one it was encrypted for.                         *)
(***************************************************************************)
MaxPeerMessages == 2

PeerPairs == {<<1, 2>>, <<2, 1>>, <<1, 3>>, <<3, 1>>}

\* Node a calls manager.decryptMessage(under, ciphertext) with the next
\* MESSAGE in flight from src to dst, which was not encrypted for a's
\* session with under.
DecryptMisdelivered(a, under, src, dst) ==
    /\ <<src, dst>> # <<under, a>>
    /\ mNet[src][dst] # <<>>
    /\ Head(mNet[src][dst]).type = MESSAGE
    /\ Called("decryptOther", a, under, MESSAGE,
              decryptMessage(Manager(a), under,
                             Head(Head(mNet[src][dst]).message), mNow))
    /\ mNet' = [mNet EXCEPT ![src][dst] = Tail(@)]
    /\ UNCHANGED <<mNow, mCleanupAt, mEph, mBudget, managerFrame>>

PeersNext ==
    \/ \E p \in PeerPairs : InitiateAnother(p[1], p[2])
    \/ \E p \in PeerPairs : ProcessHandshakeMessage(p[1], p[2])
    \/ \E p \in PeerPairs : mBudget.data < MaxPeerMessages /\ EncryptMessage(p[1], p[2])
    \/ \E p \in PeerPairs : DecryptMessage(p[1], p[2])
    \/ \E p \in PeerPairs, q \in PeerPairs : DecryptMisdelivered(p[1], p[2], q[1], q[2])

(***************************************************************************)
(* CipherState objects driven directly.  An object is [key, nonce]; its    *)
(* methods are called in any order on two objects that may be given the    *)
(* same key, decryptWithAd with any ciphertext returned so far, as it was  *)
(* returned or with a byte changed.                                        *)
(***************************************************************************)
MaxCipherOps == 5

Ciphers == {1, 2}

\* Two 32-byte keys.
CipherKeys == {<<8, 1>>, <<8, 2>>}

AdSamples == {<<>>, <<97, 100>>}

\* new CipherState()
NewCipherState == [key |-> Null, nonce |-> 0]

\* initializeKey that keeps the counter where it was.
initializeKeyKeepsNonce(cs, key) == [cs EXCEPT !.key = key]

\* CipherState.initializeKey(key), for a key of 32 bytes
initializeKey(cs, key) == [key |-> key, nonce |-> 0]

\* CipherState.encryptWithAd(ad, plaintext) on object cs
cipherEncryptWithAd(cs, ad, plaintext) ==
    IF cs.key = Null
    THEN [cs |-> cs, out |-> EmptyBlock, thrown |-> TRUE]
    ELSE [cs |-> [cs EXCEPT !.nonce = @ + 1],
          out |-> encryptWithAd(cs.key, cs.nonce, ad, plaintext),
          thrown |-> FALSE]

\* decryptWithAd that counts a failed decryption too.
cipherDecryptCountsFailures(cs, d) ==
    [cs |-> [cs EXCEPT !.nonce = @ + 1], out |-> d.out, thrown |-> d.thrown]

\* decryptWithAd on object cs once the key is known to be set: d is what the
\* decipher did.
cipherDecrypted(cs, d) ==
    IF d.thrown
    THEN [cs |-> cs, out |-> EmptyBlock, thrown |-> TRUE]
    ELSE [cs |-> [cs EXCEPT !.nonce = @ + 1], out |-> d.out, thrown |-> FALSE]

\* CipherState.decryptWithAd(ad, ciphertext) on object cs
cipherDecryptWithAd(cs, ad, ciphertext) ==
    IF cs.key = Null
    THEN [cs |-> cs, out |-> EmptyBlock, thrown |-> TRUE]
    ELSE cipherDecrypted(cs, decryptWithAd(cs.key, cs.nonce, ad, ciphertext))

\* CipherState.clear()
clear(cs) == [key |-> Null, nonce |-> 0]

NoCipherCall ==
    [op |-> "none", cipher |-> 0, thrown |-> FALSE, before |-> NewCipherState,
     after |-> NewCipherState, reused |-> FALSE, made |-> NewCipherState,
     sameAd |-> TRUE, tampered |-> FALSE, good |-> FALSE]

CipherInit ==
    /\ kCipher = [c \in Ciphers |-> NewCipherState]
    /\ kPool = <<>>
    /\ kUsed = [c \in Ciphers |-> {}]
    /\ kLast = NoCipherCall
    /\ kOps = 0

CipherIdle == CipherInit

\* cipher.initializeKey(key)
InitializeKey(c, key) ==
    /\ kOps < MaxCipherOps
    /\ kOps' = kOps + 1
    /\ kCipher' = [kCipher EXCEPT ![c] = initializeKey(@, key)]
    /\ kUsed' = [kUsed EXCEPT ![c] = {}]
    /\ kLast' = [NoCipherCall EXCEPT !.op = "initializeKey", !.cipher = c,
                    !.before = kCipher[c], !.after = kCipher'[c]]
    /\ UNCHANGED <<kPool, cipherFrame>>

\* cipher.encryptWithAd(ad, plaintext); a returned ciphertext is kept with
\* the key, nonce and ad it was made under.
EncryptWithAd(c, ad) ==
    LET e == cipherEncryptWithAd(kCipher[c], ad, Block(1, <<Len(kPool)>>))
    IN  /\ kOps < MaxCipherOps
        /\ kOps' = kOps + 1
        /\ kCipher' = [kCipher EXCEPT ![c] = e.cs]
        /\ kPool' = IF e.thrown THEN kPool
                    ELSE Append(kPool, [ct |-> e.out, ad |-> ad,
                                        plaintext |-> Block(1, <<Len(kPool)>>),
                                        made |-> kCipher[c]])
        /\ kUsed' = IF e.thrown THEN kUsed
                    ELSE [kUsed EXCEPT ![c] = @ \cup {kCipher[c].nonce}]
        /\ kLast' = [NoCipherCall EXCEPT !.op = "encryptWithAd", !.cipher = c,
                        !.thrown = e.thrown, !.before = kCipher[c], !.after = e.cs,
                        !.reused = (~e.thrown /\ kCipher[c].nonce \in kUsed[c])]
        /\ UNCHANGED cipherFrame

\* cipher.decryptWithAd(ad, ciphertext) with the i-th ciphertext returned so
\* far, tampered with or not.
DecryptWithAd(c, ad, i, tamper) ==
    LET ciphertext == IF tamper THEN corrupted(kPool[i].ct) ELSE kPool[i].ct
        d == cipherDecryptWithAd(kCipher[c], ad, ciphertext)
    IN  /\ kOps < MaxCipherOps
        /\ kOps' = kOps + 1
        /\ kCipher' = [kCipher EXCEPT ![c] = d.cs]
        /\ kLast' = [NoCipherCall EXCEPT !.op = "decryptWithAd", !.cipher = c,
                        !.thrown = d.thrown, !.before = kCipher[c], !.after = d.cs,
                        !.made = kPool[i].made, !.sameAd = (ad = kPool[i].ad),
                        !.tampered = tamper,
                        !.good = (~d.thrown /\ d.out = kPool[i].plaintext)]
        /\ UNCHANGED <<kPool, kUsed, cipherFrame>>

\* cipher.clear()
Clear(c) ==
    /\ kOps < MaxCipherOps
    /\ kOps' = kOps + 1
    /\ kCipher[c].key # Null
    /\ kCipher' = [kCipher EXCEPT ![c] = clear(@)]
    /\ kUsed' = [kUsed EXCEPT ![c] = {}]
    /\ kLast' = [NoCipherCall EXCEPT !.op = "clear", !.cipher = c,
                    !.before = kCipher[c], !.after = kCipher'[c]]
    /\ UNCHANGED <<kPool, cipherFrame>>

CipherNext ==
    \/ \E c \in Ciphers, key \in CipherKeys : InitializeKey(c, key)
    \/ \E c \in Ciphers, ad \in AdSamples : EncryptWithAd(c, ad)
    \/ \E c \in Ciphers, ad \in AdSamples, i \in 1..Len(kPool), tamper \in BOOLEAN :
          DecryptWithAd(c, ad, i, tamper)
    \/ \E c \in Ciphers : Clear(c)

(***************************************************************************)
(* C1: for every well-formed packet P, decode(encode(P)) equals P in every *)
(* field, byte for byte.                                                   *)
(***************************************************************************)
C1_RoundTrip ==
    cStep = "decoded" => (cDecoded.ok /\ cDecoded.val = cPacket)

(***************************************************************************)
(* C3: every handshake operation performed out of turn fails, and a        *)
(* completed handshake state rejects every further writeMessage and        *)
(* readMessage.  The initiator writes at message index 0 and 2 and reads   *)
(* at 1; the responder reads at 0 and 2 and writes at 1.  Stated for calls  *)
(* on states that no earlier failed call has left half-updated.            *)
(***************************************************************************)
WriteTurn(role, index) ==
    (role = "initiator" /\ index \in {0, 2}) \/ (role = "responder" /\ index = 1)

ReadTurn(role, index) ==
    (role = "initiator" /\ index = 1) \/ (role = "responder" /\ index \in {0, 2})

C3_OutOfTurnRejected ==
    /\ (nLast.op = "write" /\ nLast.clean /\ (nLast.complete \/ ~WriteTurn(nLast.who, nLast.index)))
          => nLast.threw
    /\ (nLast.op = "read" /\ nLast.clean /\ (nLast.complete \/ ~ReadTurn(nLast.who, nLast.index)))
          => nLast.threw

(***************************************************************************)
(* C2: over a channel that delivers every handshake message unmodified and *)
(* in order, once the messages of the handshakes initiated so far are      *)
(* delivered both peers hold a completed session for each other, each      *)
(* handshake took exactly three messages (INIT, RESP, NOISE_ENCRYPTED),    *)
(* and each side emitted sessionEstablished once per handshake, with       *)
(* isInitiator true on the initiating side and false on the other.         *)
(***************************************************************************)
LastTypes(a, peer, n) ==
    SubSeq(mEvents[a][peer].handshakeMessage,
           Len(mEvents[a][peer].handshakeMessage) - n + 1,
           Len(mEvents[a][peer].handshakeMessage))

HasCompletedSession(a, peer) ==
    /\ mSessions[a][peer].present
    /\ mSessions[a][peer].handshakeState = "completed"

HandshakeDone(a, peer, n) ==
    /\ HasCompletedSession(a, peer)
    /\ HasCompletedSession(peer, a)
    /\ ~mPending[a][peer].present
    /\ ~mPending[peer][a].present
    /\ Len(mEvents[a][peer].handshakeMessage)
          + Len(mEvents[peer][a].handshakeMessage) = 3 * n
    /\ LastTypes(a, peer, 2) = <<NOISE_HANDSHAKE_INIT, NOISE_ENCRYPTED>>
    /\ LastTypes(peer, a, 1) = <<NOISE_HANDSHAKE_RESP>>
    /\ mEvents[a][peer].sessionEstablished = n
    /\ mEvents[peer][a].sessionEstablished = n
    /\ mEvents[a][peer].isInitiator
    /\ ~mEvents[peer][a].isInitiator

C2_ThreeMessageHandshake ==
    \A p \in Pairs :
        LET n == Len(mBudget.initiated)
        IN  /\ Len(mEvents[p[1]][p[2]].handshakeMessage)
                  + Len(mEvents[p[2]][p[1]].handshakeMessage) <= 3 * n
            /\ (n > 0 /\ mBudget.initiated[n] = p /\ Delivered(p[1], p[2]))
                  => HandshakeDone(p[1], p[2], n)

C2_Completed ==
    /\ Len(mBudget.initiated) = 1
    /\ \E p \in Pairs : mBudget.initiated[1] = p /\ Delivered(p[1], p[2])
                        /\ HandshakeDone(p[1], p[2], 1)

(***************************************************************************)
(* C4: every session record is completed with both ciphers keyed; a record *)
(* is created only by the processHandshakeMessage call that handles the    *)
(* final message (the responder reading message 3, the initiator reading   *)
(* message 2 and writing message 3), which removes the pending handshake   *)
(* in the same step; and a call that fails, times out or closes a          *)
(* handshake creates no session record.                                    *)
(***************************************************************************)
SessionCreated ==
    mLast.sessionEstablished > 0 \/ (mLast.hasSession /\ ~mLast.hadSession)

C4_SessionInsertedAtomically ==
    /\ \A p \in Pairs :
          mSessions[p[1]][p[2]].present =>
              /\ mSessions[p[1]][p[2]].handshakeState = "completed"
              /\ mSessions[p[1]][p[2]].session.sendKey # Null
              /\ mSessions[p[1]][p[2]].session.receiveKey # Null
    /\ SessionCreated =>
          /\ mLast.op = "processHandshakeMessage"
          /\ ~mLast.threw
          /\ mLast.hadPending
          /\ ~mLast.hasPending
          /\ mLast.hasSession
          /\ \/ mLast.role = "responder" /\ mLast.index = 2
                   /\ mLast.handshakeMessage = 0
             \/ mLast.role = "initiator" /\ mLast.index = 1
                   /\ mLast.handshakeMessage = 1
    /\ mLast.handshakeFailed > 0 => ~SessionCreated

C4_ResponderSessionCreated ==
    /\ SessionCreated
    /\ mLast.role = "responder"
    /\ mLast.index = 2
    /\ mSessions[mLast.node][mLast.peer].present
    /\ mNow > 0

(***************************************************************************)
(* C9: when processHandshakeMessage fails on a handshake that is pending   *)
(* (or that the INIT being processed has just created), the pending        *)
(* handshake is removed, handshakeFailed is emitted exactly once, no       *)
(* session is recorded and no handshake message is emitted; and with no    *)
(* handshake pending, nothing but initiateHandshake or an inbound INIT     *)
(* makes the manager emit a handshake message or handshakeFailed.          *)
(***************************************************************************)
ProcessingFailed ==
    /\ mLast.op = "processHandshakeMessage"
    /\ mLast.threw
    /\ (mLast.hadPending \/ mLast.type = NOISE_HANDSHAKE_INIT)

C9_FailedHandshakeRemoved ==
    /\ ProcessingFailed =>
          /\ ~mLast.hasPending
          /\ mLast.handshakeFailed = 1
          /\ mLast.reason = "Handshake processing failed"
          /\ ~SessionCreated
          /\ mLast.hasSession = mLast.hadSession
          /\ mLast.handshakeMessage = 0
    /\ (~mLast.hadPending
        /\ ~(mLast.op = "initiateHandshake")
        /\ ~(mLast.op = "processHandshakeMessage" /\ mLast.type = NOISE_HANDSHAKE_INIT))
          => (mLast.handshakeMessage = 0 /\ mLast.handshakeFailed = 0
              /\ ~mLast.hasPending)

C9_CorruptedThirdMessage ==
    /\ ProcessingFailed
    /\ mLast.role = "responder"
    /\ mLast.type = NOISE_ENCRYPTED
    /\ mLast.index = 2
    /\ mLast.handshakeFailed = 1

(***************************************************************************)
(* C10: no handshake, of either role, is still pending more than           *)
(* handshakeTimeout (30 s) after it was created; when its timer fires the  *)
(* handshake is removed and handshakeFailed is emitted once with the       *)
(* reason 'Handshake timeout'.                                             *)
(***************************************************************************)
C10_HandshakeTimesOut ==
    /\ \A p \in Pairs :
          mPending[p[1]][p[2]].present =>
              mNow - mPending[p[1]][p[2]].createdAt <= handshakeTimeout
    /\ mLast.op = "timeout" =>
          /\ mLast.hadPending
          /\ ~mLast.hasPending
          /\ mLast.handshakeFailed = 1
          /\ mLast.reason = "Handshake timeout"
          /\ ~SessionCreated

C10_ResponderTimedOut ==
    /\ mLast.op = "timeout"
    /\ mLast.role = "responder"
    /\ mLast.handshakeFailed = 1
    /\ mNow = handshakeTimeout

(***************************************************************************)
(* C8: when handlePacket fails to decrypt a MESSAGE from a peer with a     *)
(* completed session, the session record is removed and sessionClosed is   *)
(* emitted for that peer.                                                  *)
(***************************************************************************)
C8_DecryptFailureClosesSession ==
    (mLast.op = "handlePacket" /\ mLast.hadSession /\ mLast.threw)
        => (~mLast.hasSession /\ mLast.sessionClosed = 1)

(***************************************************************************)
(* C11: a completed session stays the same completed session, with the     *)
(* same send and receive keys, until closeSession or the idle sweep        *)
(* removes it: no initiateHandshake call and no inbound handshake message  *)
(* replaces or alters it.                                                  *)
(***************************************************************************)
SameSession(old, new) ==
    /\ new.present
    /\ new.handshakeState = "completed"
    /\ new.createdAt = old.createdAt
    /\ new.session.sendKey = old.session.sendKey
    /\ new.session.receiveKey = old.session.receiveKey
    /\ new.session.handshakeHash = old.session.handshakeHash

C11_CompletedSessionKept ==
    [][\A p \in Pairs :
          HasCompletedSession(p[1], p[2]) =>
              \/ SameSession(mSessions[p[1]][p[2]], mSessions'[p[1]][p[2]])
              \/ /\ ~mSessions'[p[1]][p[2]].present
                 /\ mLast'.op \in {"closeSession", "cleanup"}
                 /\ mLast'.node = p[1]]_vars

(***************************************************************************)
(* C16: initiateHandshake(peer) called while a handshake with that peer is *)
(* pending throws and changes nothing: the pending handshake, its creation *)
(* time and timer, the sessions and the events emitted stay as they were,  *)
(* and no handshake message is sent.                                       *)
(***************************************************************************)
C16_SecondInitiationRejected ==
    [][\A p \in Pairs :
          (/\ mBudget'.initiated = Append(mBudget.initiated, p)
           /\ mPending[p[1]][p[2]].present)
              => /\ mLast'.op = "initiateHandshake"
                 /\ mLast'.threw
                 /\ mPending' = mPending
                 /\ mSessions' = mSessions
                 /\ mEvents' = mEvents
                 /\ mNet' = mNet]_vars

C16_InitiatedWhilePending ==
    /\ mLast.op = "initiateHandshake"
    /\ mLast.threw
    /\ mLast.hadPending
    /\ mLast.hasPending
    /\ mLast.role = "initiator"
    /\ mLast.index = 1

(***************************************************************************)
(* C18: closeSession(peer) on a completed session removes the record,      *)
(* leaves both cipher keys cleared and emits sessionClosed exactly once;   *)
(* from then on encryptMessage and decryptMessage for that peer throw,     *)
(* until a processHandshakeMessage call completes a new handshake, which   *)
(* is the only way a session record appears.                               *)
(***************************************************************************)
C18_CloseSessionRemoves ==
    /\ [](mLast.op \in {"encryptMessage", "decryptMessage"} /\ ~mLast.hadSession
              => mLast.threw /\ ~mLast.hasSession /\ mLast.handshakeMessage = 0)
    /\ [][\A p \in Pairs :
             /\ (mLast'.op = "closeSession" /\ mLast'.node = p[1]
                 /\ mLast'.peer = p[2] /\ HasCompletedSession(p[1], p[2]))
                   => /\ ~mSessions'[p[1]][p[2]].present
                      /\ mSessions'[p[1]][p[2]].session.sendKey = Null
                      /\ mSessions'[p[1]][p[2]].session.receiveKey = Null
                      /\ mEvents'[p[1]][p[2]].sessionClosed
                            = mEvents[p[1]][p[2]].sessionClosed + 1
             /\ (~mSessions[p[1]][p[2]].present /\ mSessions'[p[1]][p[2]].present)
                   => /\ mLast'.op = "processHandshakeMessage"
                      /\ mLast'.node = p[1] /\ mLast'.peer = p[2]
                      /\ mLast'.sessionEstablished = 1]_vars

C18_EncryptAfterClose ==
    /\ mLast.op = "encryptMessage"
    /\ mLast.threw
    /\ ~mLast.hadSession
    /\ mEvents[mLast.node][mLast.peer].sessionClosed = 1
    /\ mEvents[mLast.node][mLast.peer].sessionEstablished = 1

(***************************************************************************)
(* C12: once a handshake is complete on both sides, the initiator's send   *)
(* key is the first output of split() and equals the responder's receive   *)
(* key, the initiator's receive key is the second output and equals the    *)
(* responder's send key, and the two keys differ; so a message encrypted   *)
(* by either side decrypts on the other side under the same nonce, and     *)
(* does not decrypt under the cipher of the opposite direction.            *)
(***************************************************************************)
\* The key HMAC-ed to give the term out, an output of hkdf.
TempKeyOf(out) == SubSeq(out, 4, 3 + out[2])

\* first and second are the first two outputs of one hkdf call.
SplitOutputs(first, second) ==
    /\ Len(first) > 3
    /\ first = hmac(TempKeyOf(first), <<1>>)
    /\ second = hmac(TempKeyOf(first), first \o <<2>>)

\* A message encrypted with sendKey decrypts with receiveKey and not with
\* otherKey.
OneWay(sendKey, receiveKey, otherKey) ==
    \A n \in 0..MaxData :
        LET plaintext == Block(1, <<n>>)
            ciphertext == encryptWithAd(sendKey, n, <<>>, plaintext)
        IN  /\ ~decryptWithAd(receiveKey, n, <<>>, ciphertext).thrown
            /\ decryptWithAd(receiveKey, n, <<>>, ciphertext).out = plaintext
            /\ decryptWithAd(otherKey, n, <<>>, ciphertext).thrown

C12_MirroredKeys ==
    /\ \A p \in Pairs :
          LET n == Len(mBudget.initiated)
              i == mSessions[p[1]][p[2]].session
              r == mSessions[p[2]][p[1]].session
          IN  (n > 0 /\ mBudget.initiated[n] = p /\ Delivered(p[1], p[2])
               /\ HasCompletedSession(p[1], p[2]) /\ HasCompletedSession(p[2], p[1]))
                  => /\ SplitOutputs(i.sendKey, i.receiveKey)
                     /\ r.receiveKey = i.sendKey
                     /\ r.sendKey = i.receiveKey
                     /\ i.sendKey # i.receiveKey
                     /\ OneWay(i.sendKey, r.receiveKey, r.sendKey)
                     /\ OneWay(r.sendKey, i.receiveKey, i.sendKey)
    /\ (Len(mBudget.initiated) <= 1 /\ mLast.op = "handlePacket")
          => (~mLast.threw /\ mLast.hadSession)

C12_MessagesBothWays ==
    /\ Len(mBudget.initiated) = 1
    /\ \A p \in Pairs :
          /\ HasCompletedSession(p[1], p[2])
          /\ Delivered(p[1], p[2])
          /\ mEvents[p[1]][p[2]].packet > 0
    /\ mLast.op = "handlePacket"

(***************************************************************************)
(* C15: after a completed handshake, the receive nonce of a peer equals    *)
(* the number k of messages it has decrypted from the other peer, and the  *)
(* other peer's send nonce equals k plus the number of its messages still  *)
(* in flight; so once all k messages sent are decrypted both counters      *)
(* equal k, whatever the opposite direction has carried.                   *)
(***************************************************************************)
RECURSIVE InFlight(_)
InFlight(net) ==
    IF net = <<>> THEN 0
    ELSE (IF Head(net).type = MESSAGE THEN 1 ELSE 0) + InFlight(Tail(net))

C15_NonceCounters ==
    \A p \in Pairs :
        (/\ Len(mBudget.initiated) = 1
         /\ HasCompletedSession(p[1], p[2])
         /\ HasCompletedSession(p[2], p[1]))
            => /\ mSessions[p[2]][p[1]].session.receiveNonce
                    = mEvents[p[2]][p[1]].packet
               /\ mSessions[p[1]][p[2]].session.sendNonce
                    = mEvents[p[2]][p[1]].packet + InFlight(mNet[p[1]][p[2]])

C15_FirstMessageDecrypted ==
    /\ Len(mBudget.initiated) = 1
    /\ mLast.op = "handlePacket"
    /\ ~mLast.threw
    /\ mNet[mLast.peer][mLast.node] = <<>>
    /\ mSessions[mLast.peer][mLast.node].session.sendNonce = 1
    /\ mSessions[mLast.node][mLast.peer].session.receiveNonce = 1
    /\ mSessions[mLast.peer][mLast.node].session.receiveNonce = 0
    /\ mSessions[mLast.node][mLast.peer].session.sendNonce = 0

Mismatch ==
    \/ ~kLast.sameAd
    \/ kLast.tampered
    \/ kLast.made.nonce # kLast.before.nonce
    \/ kLast.made.key # kLast.before.key

C14_FailedDecryptKeepsNonce ==
    kLast.op = "decryptWithAd" =>
        /\ Mismatch => kLast.thrown
        /\ kLast.thrown => kLast.after = kLast.before
        /\ ~kLast.thrown =>
              /\ kLast.good
              /\ kLast.after.nonce = kLast.before.nonce + 1
              /\ kLast.after.key = kLast.before.key
        /\ (~Mismatch /\ kLast.before.key # Null) => ~kLast.thrown

C14_WrongNonceRejected ==
    /\ kLast.op = "decryptWithAd"
    /\ kLast.thrown
    /\ kLast.sameAd
    /\ ~kLast.tampered
    /\ kLast.made.key = kLast.before.key
    /\ kLast.before.key # Null
    /\ kLast.before.nonce = 1
    /\ kLast.made.nonce = 0

(***************************************************************************)
(* C17: encryptMessage and decryptMessage for a peer with no completed     *)
(* session (none yet, a handshake only pending, or the session closed)     *)
(* throw and leave every session and nonce as it was; a call that returns  *)
(* has set the session's lastActivity to the current time.                 *)
(***************************************************************************)
C17_NeedsCompletedSession ==
    [][\A p \in Pairs :
          (mLast'.op \in {"encryptMessage", "decryptMessage"}
           /\ mLast'.node = p[1] /\ mLast'.peer = p[2])
              => /\ ~HasCompletedSession(p[1], p[2])
                    => /\ mLast'.threw
                       /\ mSessions' = mSessions
                       /\ mPending' = mPending
                       /\ mEvents' = mEvents
                       /\ mNet'[p[1]] = mNet[p[1]]
                 /\ ~mLast'.threw
                    => /\ HasCompletedSession(p[1], p[2])
                       /\ mSessions'[p[1]][p[2]].lastActivity = mNow
                       /\ mSessions'[p[1]][p[2]].present]_vars

C17_EncryptWhilePending ==
    /\ mLast.op = "encryptMessage"
    /\ mLast.threw
    /\ mLast.hadPending
    /\ ~mLast.hadSession
    /\ mNow > 0

(***************************************************************************)
(* C20: no firing of the 60 s cleanup interval leaves behind a session     *)
(* whose last activity was more than sessionTimeout (1 h) before it: the   *)
(* firing removes the record and emits sessionClosed; and a firing removes *)
(* no session that was used within the last hour.                          *)
(***************************************************************************)
IdleAt(a, peer, t) == t - mSessions[a][peer].lastActivity

C20_IdleSessionsSwept ==
    /\ [](\A p \in Pairs :
             mSessions[p[1]][p[2]].present
                 => IdleAt(p[1], p[2], mCleanupAt[p[1]] - cleanupInterval)
                        <= sessionTimeout)
    /\ [][\A p \in Pairs :
             (mLast'.op = "cleanup" /\ mLast'.node = p[1]
              /\ mSessions[p[1]][p[2]].present)
                 => IF IdleAt(p[1], p[2], mNow) > sessionTimeout
                    THEN /\ ~mSessions'[p[1]][p[2]].present
                         /\ mEvents'[p[1]][p[2]].sessionClosed
                               = mEvents[p[1]][p[2]].sessionClosed + 1
                    ELSE /\ mSessions'[p[1]][p[2]] = mSessions[p[1]][p[2]]
                         /\ mEvents'[p[1]][p[2]] = mEvents[p[1]][p[2]]]_vars

C20_SweptAfterAnHour ==
    /\ mLast.op = "cleanup"
    /\ mNow = sessionTimeout + cleanupInterval
    /\ \E p \in Pairs :
          /\ mLast.node = p[1]
          /\ ~mSessions[p[1]][p[2]].present
          /\ mEvents[p[1]][p[2]].sessionClosed = 1
          /\ HasCompletedSession(p[2], p[1])
          /\ mSessions[p[2]][p[1]].lastActivity > 0

(***************************************************************************)
(* C19: a call made on a manager for one peer changes nothing that the     *)
(* manager holds for another peer (pending handshake with its creation     *)
(* time and timer, session with its nonces, events) and nothing in any     *)
(* other manager; a handshake initiated once between two peers completes   *)
(* on both sides once its messages are delivered, whatever the other link  *)
(* carries; and decryptMessage rejects a ciphertext that was encrypted     *)
(* for another session than the one it is called for.                      *)
(***************************************************************************)
RECURSIVE Initiations(_, _)
Initiations(initiated, p) ==
    IF initiated = <<>> THEN 0
    ELSE (IF Head(initiated) = p THEN 1 ELSE 0) + Initiations(Tail(initiated), p)

C19_PeersIndependent ==
    /\ [](\A p \in PeerPairs :
             (/\ Initiations(mBudget.initiated, p) = 1
              /\ Initiations(mBudget.initiated, <<p[2], p[1]>>) = 0
              /\ Delivered(p[1], p[2]))
                 => HandshakeDone(p[1], p[2], 1))
    /\ []((mLast.op = "decryptOther" /\ mLast.hadSession)
              => (mLast.threw /\ mLast.hasSession))
    /\ [][\A a \in AllNodes, q \in AllNodes :
             (mLast'.op # "none" /\ (a # mLast'.node \/ q # mLast'.peer))
                 => /\ mPending'[a][q] = mPending[a][q]
                    /\ mSessions'[a][q] = mSessions[a][q]
                    /\ mEvents'[a][q] = mEvents[a][q]]_vars

C19_TwoSessionsAtOnce ==
    /\ mBudget.initiated \in {<<<<1, 2>>, <<1, 3>>>>, <<<<1, 3>>, <<1, 2>>>>}
    /\ HandshakeDone(1, 2, 1)
    /\ HandshakeDone(1, 3, 1)
    /\ mLast.op = "decryptOther"
    /\ mLast.node = 1
    /\ mLast.hadSession
    /\ mLast.threw

(***************************************************************************)
(* BitchatProtocol: validation, duplicate detection and the relay          *)
(* decision.  The source cleans the cache when it holds more than 10000    *)
(* ids; the model cleans it when it holds more than MessageCacheLimit, so  *)
(* that a run reaches the cleanup.                                         *)
(***************************************************************************)
MessageCacheLimit == 4

RouterNow == 400 * 1000

ClockSkew == 5 * 60 * 1000

PeerId(n) == [i \in 1..8 |-> n]

\* this.peerID of the router.
LocalPeerId == PeerId(1)

\* BitchatProtocol.getPacketId(packet)
getPacketId(packet) ==
    <<packet.senderID, packet.timestamp,
      SubSeq(packet.payload, 1, Min(8, Len(packet.payload)))>>

\* BitchatProtocol.isPacketForUs(packet)
isPacketForUs(packet) ==
    IF packet.recipientID = Absent THEN TRUE
    ELSE packet.recipientID = LocalPeerId \/ packet.recipientID = BROADCAST_ID

\* BitchatProtocol.verifySignature(packet)
verifySignature(packet) == TRUE

\* BitchatProtocol.validatePacket(packet)
validatePacket(packet, messageCache, now) ==
    IF packet.version # PROTOCOL_VERSION THEN FALSE
    ELSE IF packet.ttl < 0 \/ packet.ttl > MAX_TTL THEN FALSE
    ELSE IF packet.timestamp > now + ClockSkew \/ packet.timestamp < now - ClockSkew
    THEN FALSE
    ELSE IF \E i \in 1..Len(messageCache) : messageCache[i] = getPacketId(packet)
    THEN FALSE
    ELSE IF packet.signature # Absent /\ ~verifySignature(packet) THEN FALSE
    ELSE TRUE

\* BitchatProtocol.cleanMessageCache(): entries.slice(entries.length / 2)
cleanMessageCache(messageCache) ==
    SubSeq(messageCache, (Len(messageCache) \div 2) + 1, Len(messageCache))

\* processPacket, "Add to message cache" and "Clean old cache entries".
cacheAdd(messageCache, packetId) ==
    IF Len(Append(messageCache, packetId)) > MessageCacheLimit
    THEN cleanMessageCache(Append(messageCache, packetId))
    ELSE Append(messageCache, packetId)

\* processPacket, "Relay packet if TTL > 0 and not for us".
relays(packet) == packet.ttl > 0 /\ ~isPacketForUs(packet)

\* BitchatProtocol.relayPacket(packet, fromPeer): the packet it relays.
relayPacket(packet) == [packet EXCEPT !.ttl = @ - 1]

\* A LEAVE packet, whose handler only logs.
RouterPacket(version, ttl, timestamp, sender, recipient, payload) ==
    [version |-> version, type |-> LEAVE, ttl |-> ttl, timestamp |-> timestamp,
     flags |-> IF recipient = Absent THEN 0 ELSE HAS_RECIPIENT,
     senderID |-> PeerId(sender), recipientID |-> recipient,
     payload |-> payload, signature |-> Absent]

\* The packets that reach the router: six valid ones with distinct ids, for
\* another peer, for this node and broadcast, and three invalid ones.
RouterPackets ==
    { RouterPacket(1, 1, RouterNow, 2, PeerId(3), <<1>>),
      RouterPacket(1, 0, RouterNow, 2, PeerId(3), <<2>>),
      RouterPacket(1, 2, RouterNow, 2, LocalPeerId, <<3>>),
      RouterPacket(1, 7, RouterNow, 3, Absent, <<1>>),
      RouterPacket(1, 3, RouterNow - ClockSkew, 3, BROADCAST_ID, <<2>>),
      RouterPacket(1, 5, RouterNow + ClockSkew, 3, PeerId(2), <<3>>),
      RouterPacket(2, 5, RouterNow, 2, PeerId(3), <<4>>),
      RouterPacket(1, 8, RouterNow, 2, PeerId(3), <<5>>),
      RouterPacket(1, 5, RouterNow - ClockSkew - 1, 2, PeerId(3), <<6>>) }

NoRouterCall ==
    [called |-> FALSE, packet |-> RouterPacket(0, 0, 0, 0, Absent, <<>>),
     duplicate |-> FALSE, cached |-> FALSE, handled |-> FALSE,
     relayed |-> FALSE, relay |-> RouterPacket(0, 0, 0, 0, Absent, <<>>)]

RouterInit ==
    /\ rCache = <<>>
    /\ rDelivered = {}
    /\ rLast = NoRouterCall
    /\ rBlocked = <<>>

RouterIdle == RouterInit

\* await protocol.processPacket(packet, fromPeer)
ProcessPacket(packet) ==
    /\ IF validatePacket(packet, rCache, RouterNow)
       THEN /\ rCache' = cacheAdd(rCache, getPacketId(packet))
            /\ rDelivered' = rDelivered \cup {getPacketId(packet)}
            /\ rLast' = [called |-> TRUE, packet |-> packet,
                         duplicate |-> getPacketId(packet) \in rDelivered,
                         cached |-> FALSE, handled |-> TRUE,
                         relayed |-> relays(packet),
                         relay |-> IF relays(packet) THEN relayPacket(packet)
                                   ELSE NoRouterCall.relay]
       ELSE /\ rLast' = [called |-> TRUE, packet |-> packet,
                         duplicate |-> getPacketId(packet) \in rDelivered,
                         cached |-> \E i \in 1..Len(rCache) :
                                        rCache[i] = getPacketId(packet),
                         handled |-> FALSE, relayed |-> FALSE,
                         relay |-> NoRouterCall.relay]
            /\ UNCHANGED <<rCache, rDelivered>>
    /\ UNCHANGED <<rBlocked, routerFrame>>

RouterNext == \E packet \in RouterPackets : ProcessPacket(packet)

(***************************************************************************)
(* C6: a packet that processPacket has accepted before is dropped on every *)
(* later delivery: it is neither handled nor relayed again.                *)
(***************************************************************************)
C6_NoDuplicateRelay ==
    (rLast.called /\ rLast.duplicate) => (~rLast.handled /\ ~rLast.relayed)

(***************************************************************************)
(* C7: a packet is relayed only if its ttl is still greater than 0 after   *)
(* the decrement: no packet received with ttl 1 or 0 is relayed, and no    *)
(* relayed copy carries ttl 0.                                             *)
(***************************************************************************)
C7_RelayOnlyWithTtlLeft ==
    (rLast.called /\ rLast.relayed) =>
        (rLast.packet.ttl > 1 /\ rLast.relay.ttl = rLast.packet.ttl - 1
         /\ rLast.relay.ttl > 0)

(***************************************************************************)
(* Blocking.  The application keeps the ids of blocked peers in            *)
(* settings.blockedPeers; the peers that send packets are known to it.     *)
(***************************************************************************)
MaxBlocked == 2

Senders == {2, 3}

\* blockedPeers.filter(id => id !== peerId)
RECURSIVE filterOut(_, _)
filterOut(ids, peerId) ==
    IF ids = <<>> THEN <<>>
    ELSE IF Head(ids) = peerId THEN filterOut(Tail(ids), peerId)
    ELSE <<Head(ids)>> \o filterOut(Tail(ids), peerId)

\* The PEER_BLOCK handler for a peer in mockPeers.
BlockPeer(n) ==
    /\ Len(rBlocked) < MaxBlocked
    /\ rBlocked' = Append(rBlocked, PeerId(n))
    /\ rLast' = NoRouterCall
    /\ UNCHANGED <<rCache, rDelivered, routerFrame>>

\* The PEER_UNBLOCK handler for a peer in mockPeers.
UnblockPeer(n) ==
    /\ rBlocked' = filterOut(rBlocked, PeerId(n))
    /\ rLast' = NoRouterCall
    /\ UNCHANGED <<rCache, rDelivered, routerFrame>>

\* The packets sent while peers are blocked and unblocked: to be relayed, for
\* this node, and broadcast.
BlockPackets ==
    {packet \in RouterPackets : packet.version = PROTOCOL_VERSION /\ packet.ttl <= 3}

BlockNext ==
    \/ \E packet \in BlockPackets : ProcessPacket(packet)
    \/ \E n \in Senders : BlockPeer(n)
    \/ \E n \in Senders : UnblockPeer(n)

\* The sender of the packet of the last processPacket call is blocked.
SenderBlocked ==
    \E i \in 1..Len(rBlocked) : rBlocked[i] = rLast.packet.senderID

(***************************************************************************)
(* C24: while its sender is blocked, a packet that reaches processPacket   *)
(* is dropped: it is neither handled for the local application nor         *)
(* relayed.                                                                *)
(***************************************************************************)
C24_BlockedSenderDropped ==
    (rLast.called /\ SenderBlocked) => (~rLast.handled /\ ~rLast.relayed)

(***************************************************************************)
(* TransportManager.sendPacket and BLETransport.sendData.  A call is named *)
(* by its number; a fragment on the link is [send, index, size].  The      *)
(* 10 ms timers are all of one length, so they fire in the order they were *)
(* armed.                                                                  *)
(***************************************************************************)
MaxSends == 3

DataLengths == {100, 600, 1100}

RECURSIVE fragmentData(_)
\* BLETransport.fragmentData(data), as the sizes of the fragments.
fragmentData(length) ==
    IF length <= BLE_MTU THEN <<length>>
    ELSE <<BLE_MTU>> \o fragmentData(length - BLE_MTU)

\* BitchatProtocol has no createPacket method: the call in sendPacket throws
\* a TypeError.
createPacketThrows == TRUE

SendInit ==
    /\ sNonce = 0
    /\ sLink = <<>>
    /\ sTimers = <<>>
    /\ sCalls = 0
    /\ sResult = <<>>
    /\ sSubscribed = TRUE

SendIdle == SendInit

\* NotifyCharacteristic.onSubscribe / onUnsubscribe
Subscribe ==
    /\ ~sSubscribed
    /\ sSubscribed' = TRUE
    /\ UNCHANGED <<sNonce, sLink, sTimers, sCalls, sResult, sendFrame>>

Unsubscribe ==
    /\ sSubscribed
    /\ sSubscribed' = FALSE
    /\ UNCHANGED <<sNonce, sLink, sTimers, sCalls, sResult, sendFrame>>

\* TransportManager.sendPacket(recipientId, MESSAGE, payload) to a peer with a
\* completed session: the payload is encrypted, then createPacket throws,
\* the error is caught and the call returns false.
SendPacket ==
    /\ sCalls < MaxSends
    /\ sCalls' = sCalls + 1
    /\ sNonce' = sNonce + 1
    /\ sResult' = Append(sResult, IF createPacketThrows THEN "false" ELSE "pending")
    /\ UNCHANGED <<sLink, sTimers, sSubscribed, sendFrame>>

\* BLETransport.sendData(data) up to its first await: the first fragment is
\* handed to the link, and with more than one fragment the call waits 10 ms.
SendData(length) ==
    /\ sCalls < MaxSends
    /\ sCalls' = sCalls + 1
    /\ IF ~sSubscribed
       THEN /\ sResult' = Append(sResult, "false")
            /\ UNCHANGED <<sLink, sTimers>>
       ELSE /\ sLink' = Append(sLink, [send |-> sCalls + 1, index |-> 1,
                                       size |-> fragmentData(length)[1]])
            /\ IF Len(fragmentData(length)) > 1
               THEN /\ sTimers' = Append(sTimers,
                                      [send |-> sCalls + 1, next |-> 2,
                                       fragments |-> fragmentData(length)])
                    /\ sResult' = Append(sResult, "pending")
               ELSE /\ sResult' = Append(sResult, "true")
                    /\ UNCHANGED sTimers
    /\ UNCHANGED <<sNonce, sSubscribed, sendFrame>>

\* The oldest 10 ms timer fires and its sendData call goes on: the next
\* fragment and another wait, or the end of the loop.
ResumeSendData ==
    /\ sTimers # <<>>
    /\ LET t == Head(sTimers)
       IN  IF t.next > Len(t.fragments)
           THEN /\ sResult' = [sResult EXCEPT ![t.send] = "true"]
                /\ sTimers' = Tail(sTimers)
                /\ UNCHANGED sLink
           ELSE IF ~sSubscribed
           THEN /\ sResult' = [sResult EXCEPT ![t.send] = "false"]
                /\ sTimers' = Tail(sTimers)
                /\ UNCHANGED sLink
           ELSE /\ sLink' = Append(sLink, [send |-> t.send, index |-> t.next,
                                           size |-> t.fragments[t.next]])
                /\ sTimers' = Append(Tail(sTimers), [t EXCEPT !.next = @ + 1])
                /\ UNCHANGED sResult
    /\ UNCHANGED <<sNonce, sCalls, sSubscribed, sendFrame>>

SendNext ==
    \/ SendPacket
    \/ \E length \in DataLengths : SendData(length)
    \/ ResumeSendData
    \/ Subscribe
    \/ Unsubscribe

(***************************************************************************)
(* C5: of two sends issued in the order A then B, all fragments of A are   *)
(* handed to the BLE link before any fragment of B.                        *)
(***************************************************************************)
C5_SendsInOrder ==
    \A i \in 1..Len(sLink) : \A j \in 1..Len(sLink) :
        i < j => sLink[i].send <= sLink[j].send

(***************************************************************************)
(* TransportManager between the link and the application.  Packets from a  *)
(* peer reach handlePacket as BinaryProtocol.decode returns them; the      *)
(* handshake messages a manager has emitted and that are still in flight   *)
(* may be passed to sendPacket, as may application data.                   *)
(***************************************************************************)
pipeRest == <<codecVars, noiseVars, routerVars, sendVars, cipherVars, fragVars,
    padVars, historyVars, bleVars>>

\* The headers an inbound packet may carry: valid, of another protocol
\* version, and with a ttl above MAX_TTL.
PipeHeaders ==
    { [version |-> PROTOCOL_VERSION, ttl |-> 3],
      [version |-> PROTOCOL_VERSION + 1, ttl |-> 3],
      [version |-> PROTOCOL_VERSION, ttl |-> MAX_TTL + 1] }

\* What BinaryProtocol.decode returns for the packet pkt in flight from peer
\* to node a under header hdr.
Decoded(hdr, peer, a, pkt, now) ==
    [version |-> hdr.version, type |-> pkt.type, ttl |-> hdr.ttl,
     timestamp |-> now, flags |-> HAS_RECIPIENT, senderID |-> PeerId(peer),
     recipientID |-> PeerId(a), payload |-> pkt.message, signature |-> Absent,
     isCompressed |-> FALSE]

\* handlePacket's test packet.messageType === INIT || ... === RESP || ... ===
\* NOISE_ENCRYPTED: a property the object lacks is undefined and equals none.
isHandshakePacket(packet) ==
    /\ "messageType" \in DOMAIN packet
    /\ packet.messageType \in HandshakeTypes

\* The buffer handlePacket passes to decryptMessage.
payloadBuffer(payload) == IF payload = <<>> THEN EmptyBlock ELSE Head(payload)

\* TransportManager.handlePacket(packet, transport) at the manager M of the
\* receiving node.
handlePacket(M, localStatic, packet, peerID, now, eph) ==
    IF isHandshakePacket(packet)
    THEN [processHandshakeMessage(M, localStatic, peerID, packet.messageType,
                                  packet.payload, now, eph)
             EXCEPT !.threw = FALSE]
    ELSE IF M.sessions[peerID].present
            /\ M.sessions[peerID].handshakeState = "completed"
    THEN handled(decryptMessage(M, peerID, payloadBuffer(packet.payload), now),
                 peerID)
    ELSE handled(M, peerID)

\* TransportManager.sendPacket(recipientId, messageType, payload) up to the
\* createPacket call, at the manager M of the sending node.
sendPacket(M, recipientId, messageType, payload, now) ==
    IF /\ M.sessions[recipientId].present
       /\ M.sessions[recipientId].handshakeState = "completed"
       /\ messageType # NOISE_HANDSHAKE_INIT
       /\ messageType # NOISE_HANDSHAKE_RESP
    THEN encryptMessage(M, recipientId, payload, now)
    ELSE M

NoPipeCall ==
    [op |-> "none", node |-> 0, peer |-> 0, type |-> 0, frame |-> FALSE,
     hadCompleted |-> FALSE, encrypted |-> FALSE, nonceBefore |-> 0,
     nonceAfter |-> 0, returned |-> FALSE, handed |-> FALSE, delivered |-> 0,
     decryptThrew |-> FALSE, payload |-> <<>>, plain |-> <<>>,
     packet |-> Decoded([version |-> 0, ttl |-> 0], 0, 0,
                        [type |-> 0, message |-> <<>>], 0),
     seenBefore |-> <<>>]

PipeInit ==
    /\ tLast = NoPipeCall
    /\ tSeen = [a \in AllNodes |-> <<>>]

PipeIdle == PipeInit

\* An application on node a sends an unencrypted MESSAGE packet to peer.
SendPlain(a, peer) ==
    /\ mBudget.data < MaxData
    /\ mNet' = [mNet EXCEPT ![a][peer] =
                   Append(@, [type |-> MESSAGE,
                              message |-> <<Block(1, <<mBudget.data>>)>>])]
    /\ mBudget' = [mBudget EXCEPT !.data = @ + 1]
    /\ mLast' = NoOutcome
    /\ UNCHANGED <<mPending, mSessions, mEvents, mNow, mCleanupAt, mEph,
                   managerFrame>>

\* The mesh delivers the next packet from a to peer over two routes.
Duplicate(a, peer) ==
    /\ mBudget.disruptions < MaxDisruptions
    /\ mNet[a][peer] # <<>>
    /\ mNet' = [mNet EXCEPT ![a][peer] = <<Head(@)>> \o @]
    /\ mBudget' = [mBudget EXCEPT !.disruptions = @ + 1]
    /\ mLast' = NoOutcome
    /\ UNCHANGED <<mPending, mSessions, mEvents, mNow, mCleanupAt, mEph,
                   managerFrame>>

\* What sendPacket(peer, messageType, payload) on node a did: M is the manager
\* after the call.  createPacket throws, so nothing reaches the link and the
\* call returns false.
Sent(a, peer, messageType, frame, M) ==
    /\ createPacketThrows
    /\ Called("sendPacket", a, peer, messageType, [M EXCEPT !.threw = FALSE])
    /\ tLast' = [NoPipeCall EXCEPT
                    !.op = "sendPacket", !.node = a, !.peer = peer,
                    !.type = messageType, !.frame = frame,
                    !.hadCompleted = HasCompletedSession(a, peer),
                    !.encrypted = (M.out # <<>>),
                    !.nonceBefore = mSessions[a][peer].session.sendNonce,
                    !.nonceAfter = M.sessions[peer].session.sendNonce]
    /\ mBudget' = [mBudget EXCEPT !.data = @ + 1]
    /\ UNCHANGED <<mNet, mNow, mCleanupAt, mEph, tSeen, pipeRest>>

\* transportManager.sendPacket(peer, MESSAGE, payload) on node a, as the
\* MESSAGE_SEND handler calls it.
SendPacketMessage(a, peer) ==
    /\ mBudget.data < MaxData
    /\ Sent(a, peer, MESSAGE, FALSE,
            sendPacket(Manager(a), peer, MESSAGE, Block(1, <<mBudget.data>>), mNow))

\* A handshake message node a's manager emitted for peer, still in flight, is
\* passed to sendPacket with the type it was emitted with.
SendPacketHandshake(a, peer, i) ==
    /\ mBudget.data < MaxData
    /\ i \in 1..Len(mNet[a][peer])
    /\ mNet[a][peer][i].type \in HandshakeTypes
    /\ Sent(a, peer, mNet[a][peer][i].type, TRUE,
            sendPacket(Manager(a), peer, mNet[a][peer][i].type,
                       Block(msgLength(mNet[a][peer][i].message),
                             msgFlat(mNet[a][peer][i].message)),
                       mNow))

\* What handlePacket(packet) on node a did: M is the manager after the call.
Handled(a, peer, packet, M) ==
    /\ Called("handlePacket", a, peer, packet.type, M)
    /\ tLast' = [NoPipeCall EXCEPT
                    !.op = "handlePacket", !.node = a, !.peer = peer,
                    !.type = packet.type,
                    !.hadCompleted = HasCompletedSession(a, peer),
                    !.handed = isHandshakePacket(packet),
                    !.delivered = M.events[peer].packet - mEvents[a][peer].packet,
                    !.decryptThrew = M.threw,
                    !.payload = IF HasCompletedSession(a, peer) /\ M.out # <<>>
                                THEN M.out ELSE packet.payload,
                    !.plain = IF HasCompletedSession(a, peer)
                              THEN <<decryptWithAd(
                                       mSessions[a][peer].session.receiveKey,
                                       mSessions[a][peer].session.receiveNonce,
                                       <<>>, payloadBuffer(packet.payload)).out>>
                              ELSE packet.payload,
                    !.packet = packet,
                    !.seenBefore = tSeen[a]]
    /\ tSeen' = [tSeen EXCEPT ![a] = Append(@, getPacketId(packet))]
    /\ mNet' = [mNet EXCEPT ![peer][a] = Tail(@)]
    /\ mEph' = [mEph EXCEPT ![a] =
                   IF M.pending[peer].present /\ ~mPending[a][peer].present
                   THEN @ + 1 ELSE @]
    /\ UNCHANGED <<mNow, mCleanupAt, mBudget, pipeRest>>

\* The next packet from peer reaches node a under header hdr, is decoded and
\* handed to handlePacket.
HandleDecodedPacket(a, peer, hdr) ==
    /\ mNet[peer][a] # <<>>
    /\ Handled(a, peer, Decoded(hdr, peer, a, Head(mNet[peer][a]), mNow),
               handlePacket(Manager(a), LocalStatic(a),
                            Decoded(hdr, peer, a, Head(mNet[peer][a]), mNow),
                            peer, mNow, Ephemeral(a, mEph[a] + 1)))

\* The packets sent and sendPacket calls made in one run of the pipeline.
MaxPipeMessages == 2

PipeNext ==
    \/ \E p \in Pairs : InitiateQuiet(p[1], p[2])
    \/ \E p \in Pairs : ProcessHandshakeMessage(p[1], p[2])
    \/ \E p \in Pairs : mBudget.data < MaxPipeMessages /\ SendMessage(p[1], p[2])
    \/ \E p \in Pairs : mBudget.data < MaxPipeMessages /\ SendPlain(p[1], p[2])
    \/ \E p \in Pairs : Duplicate(p[1], p[2])
    \/ \E p \in Pairs :
          mBudget.data < MaxPipeMessages /\ SendPacketMessage(p[1], p[2])
    \/ \E p \in Pairs : \E i \in 1..3 :
          mBudget.data < MaxPipeMessages /\ SendPacketHandshake(p[1], p[2], i)
    \/ \E p \in Pairs : \E hdr \in PipeHeaders :
          HandleDecodedPacket(p[1], p[2], hdr)

(***************************************************************************)
(* C21: sendPacket encrypts the payload exactly when a completed session   *)
(* with the recipient exists and the payload is not a handshake frame      *)
(* (INIT, RESP or the third handshake message, typed NOISE_ENCRYPTED); a   *)
(* handshake frame is never encrypted and leaves the send nonce as it was. *)
(***************************************************************************)
C21_HandshakeFramesNotEncrypted ==
    tLast.op = "sendPacket" =>
        /\ tLast.encrypted <=> (tLast.hadCompleted /\ ~tLast.frame)
        /\ tLast.frame => tLast.nonceAfter = tLast.nonceBefore

(***************************************************************************)
(* C22: handlePacket hands a decoded packet of type INIT, RESP or          *)
(* NOISE_ENCRYPTED to processHandshakeMessage and does not deliver it; any *)
(* other packet it delivers to the application exactly once, decrypted     *)
(* when a completed session with the sender exists (and the ciphertext is  *)
(* authentic) and as it arrived otherwise.                                 *)
(***************************************************************************)
C22_InboundDispatch ==
    tLast.op = "handlePacket" =>
        IF tLast.type \in HandshakeTypes
        THEN tLast.handed /\ tLast.delivered = 0
        ELSE /\ ~tLast.handed
             /\ ~tLast.decryptThrew =>
                   (tLast.delivered = 1 /\ tLast.payload = tLast.plain)

(***************************************************************************)
(* C23: a packet that handlePacket hands to the session manager or         *)
(* delivers to the application passes validatePacket against the packets   *)
(* received before it: its version, ttl and timestamp are valid and it is  *)
(* not a duplicate.                                                        *)
(***************************************************************************)
C23_RouterCheckFirst ==
    (tLast.op = "handlePacket" /\ (tLast.handed \/ tLast.delivered > 0)) =>
        validatePacket(tLast.packet, tLast.seenBefore, mNow)

(***************************************************************************)
(* BinaryProtocol.fragmentMessage, parseFragment and reassembleFragments.  *)
(* A message id is a string of hex digits, modelled as the sequence of     *)
(* their values; a MessageFragment is [messageId, fragmentIndex,           *)
(* totalFragments, data].                                                  *)
(***************************************************************************)
FRAGMENT_START == 5

FRAGMENT_CONTINUE == 6

FRAGMENT_END == 7

\* Buffer.from(str, 'hex'): one byte per pair of digits.
fromHex(digits) ==
    [i \in 1..(Len(digits) \div 2) |-> digits[2 * i - 1] * 16 + digits[2 * i]]

\* buf.toString('hex')
toHex(buf) ==
    [i \in 1..(2 * Len(buf)) |->
        IF i % 2 = 1 THEN buf[(i + 1) \div 2] \div 16 ELSE buf[i \div 2] % 16]

\* buf.slice(start, end)
bufSlice(buf, start, end) == SubSeq(buf, start + 1, Min(end, Len(buf)))

\* Math.ceil(a / b)
ceilDiv(a, b) == (a + b - 1) \div b

\* The fragment payload fragmentMessage builds for fragment i.
fragmentPayload(messageIdBuffer, i, totalFragments, fragment) ==
    copy(fragment,
         writeUInt16BE(
             writeUInt16BE(
                 copy(messageIdBuffer, alloc(12 + Len(fragment)), 0, 0,
                      Len(messageIdBuffer)),
                 i, 8),
             totalFragments, 10),
         12, 0, Len(fragment))

\* The type fragmentMessage gives fragment i.
fragmentType(i, totalFragments) ==
    IF i = 0 THEN FRAGMENT_START
    ELSE IF i = totalFragments - 1 THEN FRAGMENT_END
    ELSE FRAGMENT_CONTINUE

\* BinaryProtocol.fragmentMessage(messageId, payload, createPacket), as the
\* [type, payload] pairs handed to createPacket.
fragmentMessage(messageId, payload) ==
    IF Len(payload) <= BLE_MTU
    THEN <<[type |-> MESSAGE, payload |-> payload]>>
    ELSE [k \in 1..ceilDiv(Len(payload), BLE_MTU) |->
             [type |-> fragmentType(k - 1, ceilDiv(Len(payload), BLE_MTU)),
              payload |->
                  fragmentPayload(
                      bufSlice(fromHex(messageId), 0, 8), k - 1,
                      ceilDiv(Len(payload), BLE_MTU),
                      bufSlice(payload, (k - 1) * BLE_MTU,
                               Min((k - 1) * BLE_MTU + BLE_MTU, Len(payload))))]]

\* BinaryProtocol.parseFragment(payload), for a payload of 12 bytes or more.
parseFragment(payload) ==
    [messageId |-> toHex(bufSlice(payload, 0, 8)),
     fragmentIndex |-> readUInt16BE(payload, 8),
     totalFragments |-> readUInt16BE(payload, 10),
     data |-> bufSlice(payload, 12, Len(payload))]

\* The place fragment k takes in fragments.sort((a, b) => a.fragmentIndex -
\* b.fragmentIndex), a stable sort: after the fragments of a lower index and
\* the earlier fragments of the same index.
sortedPlace(fragments, k) ==
    1 + Cardinality({j \in 1..Len(fragments) :
                        \/ fragments[j].fragmentIndex < fragments[k].fragmentIndex
                        \/ /\ fragments[j].fragmentIndex = fragments[k].fragmentIndex
                           /\ j < k})

placedAt(fragments, places) ==
    [r \in 1..Len(fragments) |->
        fragments[CHOOSE k \in 1..Len(fragments) : places[k] = r]]

\* A sort that leaves the fragments in the order they arrived in.
sortByIndexKeepsOrder(fragments) == fragments

sortByIndex(fragments) ==
    placedAt(fragments, [k \in 1..Len(fragments) |-> sortedPlace(fragments, k)])

RECURSIVE concatRange(_, _, _)
\* The data of fragments lo..hi, one after the other.
concatRange(fragments, lo, hi) ==
    IF lo > hi THEN <<>>
    ELSE IF lo = hi THEN fragments[lo].data
    ELSE concatRange(fragments, lo, (lo + hi) \div 2)
            \o concatRange(fragments, (lo + hi) \div 2 + 1, hi)

\* Buffer.concat(fragments.map(f => f.data))
concatData(fragments) == concatRange(fragments, 1, Len(fragments))

NoBuffer == [null |-> TRUE, data |-> <<>>]

\* reassembleFragments after the sort.
reassembleSorted(sorted) ==
    IF Len(sorted) # sorted[1].totalFragments THEN NoBuffer
    ELSE IF \E k \in 1..Len(sorted) : sorted[k].messageId # sorted[1].messageId
    THEN NoBuffer
    ELSE [null |-> FALSE, data |-> concatData(sorted)]

\* BinaryProtocol.reassembleFragments(fragments)
reassembleFragments(fragments) ==
    IF Len(fragments) = 0 THEN NoBuffer
    ELSE reassembleSorted(sortByIndex(fragments))

(***************************************************************************)
(* A payload is fragmented, its fragments are parsed in some order of      *)
(* arrival and the parsed fragments are reassembled.  Messages of more     *)
(* than MaxPermuted fragments arrive in reverse order only.                *)
(***************************************************************************)
MaxPermuted == 4

FragLengths == {400, BLE_MTU, BLE_MTU + 1, 1024, 1025, 1537, 2049, MESSAGE_MAX_SIZE}

FragSeeds == {1, 7}

\* '0123456789abcdef', and an id of three bytes.
MessageIds ==
    { <<0, 1, 2, 3, 4, 5, 6, 7, 8, 9, 10, 11, 12, 13, 14, 15>>,
      <<10, 11, 12, 13, 14, 15>> }

\* A payload whose bytes differ from place to place.
Filled(length, seed) == [i \in 1..length |-> (i * seed) % 256]

\* No reassembleFragments call yet: order is the order of arrival, by fragment
\* index, of the fragments a call was given.
NoReassembly == [called |-> FALSE, order |-> <<>>, result |-> NoBuffer]

NoFragmentCall ==
    [called |-> FALSE, messageId |-> <<>>, index |-> 0, total |-> 0,
     buffer |-> <<>>, delivered |-> FALSE, payload |-> <<>>]

FragIdle ==
    /\ fInput = [messageId |-> <<>>, payload |-> <<>>]
    /\ fPackets = <<>>
    /\ fArrived = <<>>
    /\ fResult = NoReassembly
    /\ fCache = <<>>
    /\ fLast = NoFragmentCall
    /\ fCount = 0
    /\ fAbandoned = {}
    /\ fNow = 0

FragInit ==
    /\ fInput \in {[messageId |-> id, payload |-> Filled(length, seed)] :
                      id \in MessageIds, length \in FragLengths, seed \in FragSeeds}
    /\ fPackets = <<>>
    /\ fArrived = <<>>
    /\ fResult = NoReassembly
    /\ fCache = <<>>
    /\ fLast = NoFragmentCall
    /\ fCount = 0
    /\ fAbandoned = {}
    /\ fNow = 0

\* BinaryProtocol.fragmentMessage(messageId, payload, createPacket)
FragmentMessage ==
    /\ fPackets = <<>>
    /\ fPackets' = fragmentMessage(fInput.messageId, fInput.payload)
    /\ UNCHANGED <<fInput, fArrived, fResult, fCache, fLast, fCount, fAbandoned,
                   fNow, fragFrame>>

\* Fragment packet k arrives and is parsed: BinaryProtocol.parseFragment.
ParseFragment(k) ==
    /\ k \in 1..Len(fPackets)
    /\ fPackets[k].type # MESSAGE
    /\ fResult.result.null
    /\ \A j \in 1..Len(fArrived) : fArrived[j].fragmentIndex # k - 1
    /\ Len(fPackets) > MaxPermuted => k = Len(fPackets) - Len(fArrived)
    /\ fArrived' = Append(fArrived, parseFragment(fPackets[k].payload))
    /\ fResult' = NoReassembly
    /\ UNCHANGED <<fInput, fPackets, fCache, fLast, fCount, fAbandoned, fNow,
                   fragFrame>>

\* BinaryProtocol.reassembleFragments(fragments) on what has arrived.
ReassembleFragments ==
    /\ fPackets # <<>>
    /\ ~fResult.called
    /\ Len(fPackets) > MaxPermuted => Len(fArrived) = Len(fPackets)
    /\ fResult' = [called |-> TRUE,
                   order |-> [k \in 1..Len(fArrived) |-> fArrived[k].fragmentIndex],
                   result |-> reassembleFragments(fArrived)]
    /\ fArrived' = sortByIndex(fArrived)
    /\ UNCHANGED <<fInput, fPackets, fCache, fLast, fCount, fAbandoned, fNow,
                   fragFrame>>

FragNext ==
    \/ FragmentMessage
    \/ \E k \in 1..Len(fPackets) : ParseFragment(k)
    \/ ReassembleFragments

(***************************************************************************)
(* C27: for a payload of at most MESSAGE_MAX_SIZE bytes that               *)
(* fragmentMessage splits, parsing every fragment with parseFragment and   *)
(* handing the parsed fragments to reassembleFragments, in whatever order  *)
(* they arrived, returns exactly the bytes of the payload.                 *)
(***************************************************************************)
C27_FragmentRoundTrip ==
    (fResult.called /\ Len(fPackets) > 1 /\ Len(fArrived) = Len(fPackets)) =>
        /\ ~fResult.result.null
        /\ fResult.result.data = fInput.payload

\* Four fragments that arrived in the order 2, 0, 3, 1 gave back the payload
\* of 1537 bytes.
C27_PermutedArrival ==
    /\ fResult.called
    /\ fResult.order = <<2, 0, 3, 1>>
    /\ Len(fInput.payload) = 1537
    /\ ~fResult.result.null
    /\ fResult.result.data = fInput.payload

(***************************************************************************)
(* C28: every fragment fragmentMessage produces carries at most            *)
(* BLE_MTU - 12 = 500 bytes of data, so that its payload, header included, *)
(* is at most BLE_MTU = 512 bytes, and a payload it splits is split into   *)
(* ceil(length / 500) fragments.                                           *)
(***************************************************************************)
C28_FragmentSizes ==
    Len(fPackets) > 1 =>
        /\ \A k \in 1..Len(fPackets) :
              /\ Len(parseFragment(fPackets[k].payload).data) <= BLE_MTU - 12
              /\ Len(fPackets[k].payload) <= BLE_MTU
        /\ Len(fPackets) = ceilDiv(Len(fInput.payload), BLE_MTU - 12)

(***************************************************************************)
(* BitchatProtocol.handleMessage: removePadding and decodeMessage.  The    *)
(* decoded message is only logged, so decodeMessage is modelled by whether *)
(* it throws: a read past the end of the buffer does, a slice does not.    *)
(***************************************************************************)
\* removePadding that returns everything after the length field.
removePaddingKeepsPadding(paddedPayload) ==
    IF Len(paddedPayload) < 2 THEN [thrown |-> TRUE, out |-> <<>>]
    ELSE IF readUInt16BE(paddedPayload, 0) > Len(paddedPayload) - 2
    THEN [thrown |-> TRUE, out |-> <<>>]
    ELSE [thrown |-> FALSE, out |-> bufSlice(paddedPayload, 2, Len(paddedPayload))]

\* BitchatProtocol.removePadding(paddedPayload)
removePadding(paddedPayload) ==
    IF Len(paddedPayload) < 2 THEN [thrown |-> TRUE, out |-> <<>>]
    ELSE IF readUInt16BE(paddedPayload, 0) > Len(paddedPayload) - 2
    THEN [thrown |-> TRUE, out |-> <<>>]
    ELSE [thrown |-> FALSE,
          out |-> bufSlice(paddedPayload, 2, 2 + readUInt16BE(paddedPayload, 0))]

RECURSIVE skipFields(_, _, _)
\* decodeMessage reading n fields, each a length byte and that many bytes,
\* from offset on: the offset after them, or -1 when a length byte lies past
\* the end of the buffer.
skipFields(buffer, offset, n) ==
    IF n = 0 THEN offset
    ELSE IF offset >= Len(buffer) THEN -1
    ELSE skipFields(buffer, offset + 1 + buffer[offset + 1], n - 1)

\* The number of optional one-field entries the flags announce: original
\* sender (0x04), recipient nickname (0x08) and sender peer id (0x10).
optionalFields(flags) ==
    ((flags \div 4) % 2) + ((flags \div 8) % 2) + ((flags \div 16) % 2)

\* decodeMessage from the content length on; offset is where it stands.
decodeContentThrows(buffer, offset) ==
    IF offset < 0 \/ offset + 2 > Len(buffer) THEN TRUE
    ELSE LET o == skipFields(buffer, offset + 2 + readUInt16BE(buffer, offset),
                             optionalFields(buffer[1]))
         IN  IF o < 0 THEN TRUE
             ELSE IF (buffer[1] \div 32) % 2 = 0 THEN FALSE
             ELSE IF o >= Len(buffer) THEN TRUE
             ELSE skipFields(buffer, o + 1, buffer[o + 1]) < 0

\* BitchatProtocol.decodeMessage(buffer) throws.
decodeMessageThrows(buffer) ==
    IF Len(buffer) < 9 THEN TRUE
    ELSE decodeContentThrows(buffer, skipFields(buffer, 9, 2))

\* BitchatProtocol.handleMessage(packet, fromPeer) throws.
handleMessageThrows(payload) ==
    IF removePadding(payload).thrown THEN TRUE
    ELSE decodeMessageThrows(removePadding(payload).out)

\* BitchatProtocol.encodeMessage(message) for a message with timestamp 0 and
\* no optional field: id and sender are the bytes of the two strings.
encodeMessage(id, sender, content) ==
    <<0>> \o alloc(8) \o <<Len(id)>> \o id \o <<Len(sender)>> \o sender
        \o <<(Len(content) \div 256) % 256, Len(content) % 256>> \o content

(***************************************************************************)
(* BitchatProtocol.handleFragment and its fragmentCache.  Fragment packets *)
(* of two messages arrive in any order, possibly more than once; a sender  *)
(* may abandon a message, after which no fragment of it arrives.  A cache  *)
(* entry that is absent is the empty sequence.                             *)
(***************************************************************************)
MaxFragments == 4

\* The clock of the model wraps around.
TicksPerDay == 2

\* The message ids on the wire, and the fragment counts their senders use.
ReassemblyIds == {<<1, 1, 1, 1, 1, 1, 1, 1>>, <<2, 2, 2, 2, 2, 2, 2, 2>>}

TotalsOf(id) == IF id[1] = 1 THEN {2, 3} ELSE {2}

\* The payloads of the fragment packets that may arrive.
ReassemblyPayloads ==
    UNION { UNION { { fragmentPayload(id, i, t, <<id[1], i>>) : i \in 0..(t - 1) }
                    : t \in TotalsOf(id) }
            : id \in ReassemblyIds }

\* The keys of fragmentCache: the ids as parseFragment returns them.
CacheIds == {toHex(b) : b \in ReassemblyIds}

ReassemblyInit ==
    /\ fInput = [messageId |-> <<>>, payload |-> <<>>]
    /\ fPackets = <<>>
    /\ fArrived = <<>>
    /\ fResult = NoReassembly
    /\ fCache = [id \in CacheIds |-> <<>>]
    /\ fLast = NoFragmentCall
    /\ fCount = 0
    /\ fAbandoned = {}
    /\ fNow = 0

\* handleFragment once the fragment is stored: buffer is the cache entry
\* after the push and r what reassembleFragments returned for it, if called.
handleFragment(cache, fragment, buffer, r) ==
    IF Len(buffer) = fragment.totalFragments
    THEN IF ~r.null /\ ~handleMessageThrows(r.data)
         THEN [cache EXCEPT ![fragment.messageId] = <<>>]
         ELSE [cache EXCEPT ![fragment.messageId] = sortByIndex(buffer)]
    ELSE [cache EXCEPT ![fragment.messageId] = buffer]

\* A fragment packet with this payload reaches handleFragment.
HandleFragment(payload) ==
    /\ fCount < MaxFragments
    /\ parseFragment(payload).messageId \notin fAbandoned
    /\ LET fragment == parseFragment(payload)
           buffer == Append(fCache[fragment.messageId], fragment)
           complete == Len(buffer) = fragment.totalFragments
           r == IF complete THEN reassembleFragments(buffer) ELSE NoBuffer
       IN  /\ fCache' = handleFragment(fCache, fragment, buffer, r)
           /\ fLast' = [called |-> TRUE, messageId |-> fragment.messageId,
                        index |-> fragment.fragmentIndex,
                        total |-> fragment.totalFragments, buffer |-> buffer,
                        delivered |-> complete /\ ~r.null, payload |-> r.data]
    /\ fCount' = fCount + 1
    /\ UNCHANGED <<fInput, fPackets, fArrived, fResult, fAbandoned, fNow,
                   fragFrame>>

\* The sender of message id gives up: no further fragment of it arrives.
Abandon(id) ==
    /\ id \notin fAbandoned
    /\ fAbandoned' = fAbandoned \cup {id}
    /\ fLast' = NoFragmentCall
    /\ UNCHANGED <<fInput, fPackets, fArrived, fResult, fCache, fCount, fNow,
                   fragFrame>>

\* Time passes.  BitchatProtocol sets no timer and fragmentCache holds no
\* timestamp, so nothing else changes.
TimePasses ==
    /\ fNow' = (fNow + 1) % TicksPerDay
    /\ UNCHANGED <<fInput, fPackets, fArrived, fResult, fCache, fLast, fCount,
                   fAbandoned, fragFrame>>

ReassemblyNext ==
    \/ \E payload \in ReassemblyPayloads : HandleFragment(payload)
    \/ \E id \in CacheIds : Abandon(id)
    \/ TimePasses

\* The fragments of buffer cover every index 0..total-1.
Covered(buffer, total) ==
    \A i \in 0..(total - 1) : \E k \in 1..Len(buffer) : buffer[k].fragmentIndex = i

\* They are total fragments of a message of total fragments, one per index.
ExactlyCovered(buffer, total) ==
    /\ Len(buffer) = total
    /\ Covered(buffer, total)
    /\ \A k \in 1..Len(buffer) : buffer[k].totalFragments = total

(***************************************************************************)
(* C25: handleFragment delivers a reassembled message only when the        *)
(* fragments received for its id cover every index 0..total-1, and it does *)
(* deliver once exactly those fragments have arrived, in whatever order; a *)
(* buffer that lacks an index, such as one filled up by a fragment         *)
(* received twice, is never delivered.                                     *)
(***************************************************************************)
C25_CompleteIffCovered ==
    fLast.called =>
        /\ fLast.delivered => Covered(fLast.buffer, fLast.total)
        /\ ExactlyCovered(fLast.buffer, fLast.total) => fLast.delivered

(***************************************************************************)
(* C26: a reassembly buffer whose sender has abandoned the message before  *)
(* it was complete is eventually discarded from fragmentCache.             *)
(***************************************************************************)
C26_AbandonedBufferDiscarded ==
    \A id \in CacheIds :
        (id \in fAbandoned /\ fCache[id] # <<>>) ~> (fCache[id] = <<>>)

(***************************************************************************)
(* BitchatProtocol.applyPadding and removePadding.  The bytes randomBytes  *)
(* returns are an input of the model: all zero, all 255, or varying from   *)
(* place to place.                                                         *)
(***************************************************************************)
STANDARD_BLOCK_SIZES == <<256, 512, 1024, 2048>>

RECURSIVE targetSizeIn(_, _)
\* applyPadding's loop: the first standard block size that holds the
\* payload, and payload.length when none does.
targetSizeIn(blockSizes, length) ==
    IF blockSizes = <<>> THEN length
    ELSE IF Head(blockSizes) >= length THEN Head(blockSizes)
    ELSE targetSizeIn(Tail(blockSizes), length)

\* applyPadding, "If larger than all standard sizes, pad to nearest 256 bytes".
targetSize(length) ==
    IF targetSizeIn(STANDARD_BLOCK_SIZES, length) = length
       /\ length > STANDARD_BLOCK_SIZES[Len(STANDARD_BLOCK_SIZES)]
    THEN ceilDiv(length, 256) * 256
    ELSE targetSizeIn(STANDARD_BLOCK_SIZES, length)

\* crypto.randomBytes(n), one of the values it may return.
randomBytes(n, seed) ==
    [i \in 1..n |-> IF seed < 256 THEN seed ELSE (i * seed) % 256]

\* BitchatProtocol.applyPadding(payload), with the random padding it drew.
applyPadding(payload, padding) ==
    copy(padding,
         copy(payload,
              writeUInt16BE(alloc(targetSize(Len(payload)) + 2), Len(payload), 0),
              2, 0, Len(payload)),
         2 + Len(payload), 0, Len(padding))

\* The payload lengths: around every standard block size, beyond the
\* largest, and the two ends of the range.
PadLengths ==
    {0, 1, 254, 255, 256, 257, 510, 512, 513, 1024, 1025, 2047, 2048, 2049,
     2304, 4095, MESSAGE_MAX_SIZE}

PadSeeds == {0, 255, 263}

NoPadding == [called |-> FALSE, seed |-> 0, out |-> <<>>]

NoRemoval == [called |-> FALSE, thrown |-> FALSE, out |-> <<>>]

PadIdle ==
    /\ pInput = <<>>
    /\ pPadded = NoPadding
    /\ pResult = NoRemoval

PadInit ==
    /\ pInput \in {Filled(length, seed) : length \in PadLengths, seed \in FragSeeds}
    /\ pPadded = NoPadding
    /\ pResult = NoRemoval

\* this.applyPadding(messageBuffer), randomBytes returning the bytes of seed.
ApplyPadding(seed) ==
    /\ ~pPadded.called
    /\ pPadded' = [called |-> TRUE, seed |-> seed,
                   out |-> applyPadding(
                               pInput,
                               randomBytes(targetSize(Len(pInput)) - Len(pInput),
                                           seed))]
    /\ UNCHANGED <<pInput, pResult, padFrame>>

\* this.removePadding(packet.payload) on the padded payload.
RemovePadding ==
    /\ pPadded.called
    /\ ~pResult.called
    /\ pResult' = [called |-> TRUE,
                   thrown |-> removePadding(pPadded.out).thrown,
                   out |-> removePadding(pPadded.out).out]
    /\ UNCHANGED <<pInput, pPadded, padFrame>>

PadNext ==
    \/ \E seed \in PadSeeds : ApplyPadding(seed)
    \/ RemovePadding

(***************************************************************************)
(* C29: for a plaintext of L bytes, 0 <= L <= 65535, the padded payload    *)
(* applyPadding returns has a total length of 256, 512, 1024 or 2048, or a *)
(* multiple of 256 that is at least L + 2.                                 *)
(***************************************************************************)
C29_PaddedLength ==
    pPadded.called =>
        \/ Len(pPadded.out) \in {256, 512, 1024, 2048}
        \/ Len(pPadded.out) % 256 = 0 /\ Len(pPadded.out) >= Len(pInput) + 2

(***************************************************************************)
(* C30: for a payload x of 0 to 65535 bytes, removePadding applied to      *)
(* applyPadding(x) returns exactly x, whatever bytes the random padding    *)
(* holds.                                                                  *)
(***************************************************************************)
C30_PaddingRoundTrip ==
    pResult.called => (~pResult.thrown /\ pResult.out = pInput)

\* A payload of 257 bytes, padded with 255 bytes of value 255, came back.
C30_PaddedThenRemoved ==
    /\ pResult.called
    /\ Len(pInput) = 257
    /\ pPadded.seed = 255
    /\ Len(pPadded.out) = 514
    /\ pPadded.out[514] = 255
    /\ pResult.out = pInput

(***************************************************************************)
(* BinaryProtocol.encode and decode on the wire.  Packets of any version   *)
(* and ttl, with payloads up to one byte over MESSAGE_MAX_SIZE, are        *)
(* encoded; the buffer may lose its tail on the way before it is decoded.  *)
(***************************************************************************)
WireLengths == {0, 2, LongPayloadLen}

LongWireLengths == {MESSAGE_MAX_SIZE, MESSAGE_MAX_SIZE + 1}

\* Every version and ttl with the short payloads, version 1 with the long.
WirePackets ==
    { [p EXCEPT !.flags = encodeFlags(p)] : p \in
        [version : {PROTOCOL_VERSION, PROTOCOL_VERSION + 1}, type : {MESSAGE},
         ttl : {0, MAX_TTL, MAX_TTL + 1}, timestamp : {258}, flags : {0},
         senderID : {PeerId(2)}, recipientID : {PeerId(1), Absent},
         payload : {Filled(n, 7) : n \in WireLengths},
         signature : {[i \in 1..64 |-> i], Absent},
         isCompressed : {FALSE}]
        \cup
        [version : {PROTOCOL_VERSION}, type : {MESSAGE},
         ttl : {MAX_TTL}, timestamp : {258}, flags : {0},
         senderID : {PeerId(2)}, recipientID : {PeerId(1), Absent},
         payload : {Filled(n, 7) : n \in LongWireLengths},
         signature : {[i \in 1..64 |-> i], Absent},
         isCompressed : {FALSE}] }

\* Where a buffer may be cut: after so many bytes, or, if negative, so many
\* bytes before its end.
Cuts == {0, 12, 13, 14, 21, 29, -1}

cutLength(n, k) == IF k < 0 THEN n + k ELSE k

WireInit ==
    /\ cPacket \in WirePackets
    /\ cEncoded = [ok |-> FALSE, val |-> <<>>]
    /\ cDecoded = [ok |-> FALSE, val |-> NoPacket]
    /\ cStep = "input"

\* Only the first bytes of the encoded packet arrive.
Truncate(k) ==
    /\ cStep = "encoded"
    /\ cEncoded.ok
    /\ cutLength(Len(cEncoded.val), k) \in 0..(Len(cEncoded.val) - 1)
    /\ cEncoded' = [cEncoded EXCEPT
                       !.val = SubSeq(cEncoded.val, 1, cutLength(Len(cEncoded.val), k))]
    /\ cStep' = "truncated"
    /\ UNCHANGED <<cPacket, cDecoded, codecFrame>>

WireNext ==
    \/ Encode
    \/ \E k \in Cuts : Truncate(k)
    \/ Decode

\* The bytes a buffer must hold for its flags and announced payload length.
announcedSize(data) ==
    13 + 8 + readUInt16BE(data, 12)
    + (IF (data[12] \div HAS_RECIPIENT) % 2 = 1 THEN 8 ELSE 0)
    + (IF (data[12] \div HAS_SIGNATURE) % 2 = 1 THEN 64 ELSE 0)

\* decode has been called on the buffer that arrived.
WireDecoded == cStep = "decoded"

(***************************************************************************)
(* C31: decode fails, returning no packet, whenever the buffer is shorter  *)
(* than 13 bytes, shorter than its header, ids, announced payload and      *)
(* signature require, its version byte is not 1, or its ttl byte is        *)
(* greater than MAX_TTL.                                                   *)
(***************************************************************************)
C31_DecodeRejects ==
    WireDecoded =>
        LET data == cEncoded.val
        IN  (\/ Len(data) < 13
             \/ Len(data) < 13 + 8
             \/ Len(data) < announcedSize(data)
             \/ data[1] # PROTOCOL_VERSION
             \/ data[3] > MAX_TTL)
                => ~cDecoded.ok

(***************************************************************************)
(* C32: encode fails for a payload of more than 65535 bytes, and for every *)
(* other packet returns a buffer of exactly 13 + 8 + (8 with a recipient   *)
(* id) + payload length + (64 with a signature) bytes.                     *)
(***************************************************************************)
C32_EncodedLength ==
    cStep = "encoded" =>
        IF Len(cPacket.payload) > 65535
        THEN ~cEncoded.ok
        ELSE /\ cEncoded.ok
             /\ Len(cEncoded.val) =
                   13 + 8 + (IF cPacket.recipientID # Absent THEN 8 ELSE 0)
                   + Len(cPacket.payload)
                   + (IF cPacket.signature # Absent THEN 64 ELSE 0)

\* A packet with recipient id, signature and the longest payload is encoded.
C32_LargestPacketEncoded ==
    /\ cStep = "encoded"
    /\ cEncoded.ok
    /\ Len(cPacket.payload) = MESSAGE_MAX_SIZE
    /\ cPacket.recipientID # Absent
    /\ cPacket.signature # Absent
    /\ Len(cEncoded.val) = MESSAGE_MAX_SIZE + 93

(***************************************************************************)
(* C35: when two peers have each called initiateHandshake toward the other *)
(* and the other's INIT then arrives, the receiver creates no responder    *)
(* state: it reads the INIT with its initiator state as message 2, the     *)
(* read fails, its pending handshake is cancelled with handshakeFailed and *)
(* no session is established.                                              *)
(***************************************************************************)
C35_CrossedInitiationsFail ==
    (/\ mLast.op = "processHandshakeMessage"
     /\ mLast.type = NOISE_HANDSHAKE_INIT
     /\ mLast.hadPending
     /\ mLast.role = "initiator")
        => /\ mLast.threw
           /\ mLast.handshakeFailed = 1
           /\ ~mLast.hasPending
           /\ mLast.sessionEstablished = 0
           /\ mLast.hasSession = mLast.hadSession
           /\ mLast.handshakeMessage = 0

\* Both peers initiated, each has received the other's INIT, and both
\* handshakes are cancelled with no session on either side.
C35_BothCancelled ==
    /\ mBudget.initiated \in {<<<<1, 2>>, <<2, 1>>>>, <<<<2, 1>>, <<1, 2>>>>}
    /\ mLast.op = "processHandshakeMessage"
    /\ mLast.type = NOISE_HANDSHAKE_INIT
    /\ mLast.role = "initiator"
    /\ mLast.index = 1
    /\ mNet[1][2] = <<>> /\ mNet[2][1] = <<>>
    /\ \A p \in Pairs :
          /\ ~mPending[p[1]][p[2]].present
          /\ ~mSessions[p[1]][p[2]].present
          /\ mEvents[p[1]][p[2]].handshakeFailed = 1

(***************************************************************************)
(* The life of a handshake.  Either peer may initiate, twice in all;       *)
(* packets may be lost, time passes, the deadline timers and the cleanup   *)
(* interval fire, and a session or a manager may be closed at any moment.  *)
(***************************************************************************)
RECURSIVE closeAll(_, _)
\* destroy(), "Clear all sessions".
closeAll(M, peers) ==
    IF peers = {} THEN M
    ELSE LET p == CHOOSE x \in peers : TRUE
         IN  closeAll(IF M.sessions[p].present THEN closeSession(M, p) ELSE M,
                      peers \ {p})

RECURSIVE cancelAll(_, _)
\* destroy(), "Clear all handshakes".
cancelAll(M, peers) ==
    IF peers = {} THEN M
    ELSE LET p == CHOOSE x \in peers : TRUE
         IN  cancelAll(cancelHandshake(M, p, "Manager destroyed"), peers \ {p})

\* NoiseSessionManager.destroy()
destroy(M) == cancelAll(closeAll(M, AllNodes), AllNodes)

\* A cleanup timer that was cleared never fires.
Never == (MaxTicks + 1) * TickMs

\* manager.destroy() on node a.
Destroy(a) ==
    /\ mBudget.disruptions < MaxDisruptions
    /\ mCleanupAt[a] # Never
    /\ Called("destroy", a, a, 0, destroy(Manager(a)))
    /\ mCleanupAt' = [mCleanupAt EXCEPT ![a] = Never]
    /\ mBudget' = [mBudget EXCEPT !.disruptions = @ + 1]
    /\ UNCHANGED <<mNet, mNow, mEph, managerFrame>>

LifeNext ==
    \/ \E p \in Pairs : InitiateAnother(p[1], p[2])
    \/ \E p \in Pairs : ProcessHandshakeMessage(p[1], p[2])
    \/ \E p \in Pairs : CloseSession(p[1], p[2])
    \/ \E p \in Pairs : HandshakeTimeout(p[1], p[2])
    \/ \E a \in Nodes : CleanupTimer(a)
    \/ Tick
    \/ \E p \in Pairs : Lose(p[1], p[2])
    \/ \E a \in Nodes : Destroy(a)

\* The handshake events node a emits about peer in a step: how many
\* sessionEstablished and how many handshakeFailed.
EstablishedInStep(a, peer) ==
    mEvents'[a][peer].sessionEstablished - mEvents[a][peer].sessionEstablished

FailedInStep(a, peer) ==
    mEvents'[a][peer].handshakeFailed - mEvents[a][peer].handshakeFailed

\* One handshake of node a with peer: its events come when it leaves
\* pendingHandshakes, one of the two and once.
EndsOnce(a, peer) ==
    /\ EstablishedInStep(a, peer) \in {0, 1}
    /\ FailedInStep(a, peer) \in {0, 1}
    /\ EstablishedInStep(a, peer) + FailedInStep(a, peer) <= 1
    /\ (mPending[a][peer].present /\ ~mPending'[a][peer].present)
          => EstablishedInStep(a, peer) + FailedInStep(a, peer) = 1
    /\ (mPending[a][peer].present /\ mPending'[a][peer].present)
          => /\ EstablishedInStep(a, peer) + FailedInStep(a, peer) = 0
             /\ mPending'[a][peer].createdAt = mPending[a][peer].createdAt
             /\ mPending'[a][peer].state.role = mPending[a][peer].state.role
    /\ ~mPending[a][peer].present
          => /\ EstablishedInStep(a, peer) = 0
             /\ FailedInStep(a, peer) = 1 => ~mPending'[a][peer].present

(***************************************************************************)
(* C36: every pending handshake ends in exactly one event for its peer,    *)
(* sessionEstablished or handshakeFailed, never both and never one of them *)
(* twice: an event is emitted only by the step that removes the handshake  *)
(* from pendingHandshakes, so after sessionEstablished neither the         *)
(* deadline timer nor the sweep emits handshakeFailed for it, and a        *)
(* handshake message that arrives after a cancellation completes nothing.  *)
(***************************************************************************)
C36_HandshakeEndsOnce == [][\A p \in Pairs : EndsOnce(p[1], p[2])]_vars

\* A handshake was established, its deadline has passed and the sweep has
\* run, and handshakeFailed was never emitted about that peer.
C36_SweptAfterEstablished ==
    /\ mLast.op = "cleanup"
    /\ mNow > handshakeTimeout
    /\ mEvents[mLast.node][3 - mLast.node].sessionEstablished = 1
    /\ mEvents[mLast.node][3 - mLast.node].handshakeFailed = 0

(***************************************************************************)
(* Sends that fail after the encryption step.  One handshake completes     *)
(* over a link that delivers every packet it is given, unmodified and in   *)
(* order; each sendPacket call either hands its packet to the link or      *)
(* ends, after encryptMessage has run, with nothing transmitted.           *)
(***************************************************************************)
SendFailNext ==
    \/ \E p \in Pairs : InitiateQuiet(p[1], p[2])
    \/ \E p \in Pairs : ProcessHandshakeMessage(p[1], p[2])
    \/ \E p \in Pairs : SendMessage(p[1], p[2])
    \/ \E p \in Pairs : SendPacketMessage(p[1], p[2])
    \/ \E p \in Pairs : HandlePacket(p[1], p[2])

(***************************************************************************)
(* C34: a sendPacket call that encrypted its payload and then transmitted  *)
(* nothing does not put the sender's send nonce ahead of the receiver: the *)
(* next message transmitted to that peer is decrypted by the receiver.     *)
(***************************************************************************)
C34_ReceiverFollows ==
    (mLast.op = "handlePacket" /\ mLast.hadSession) => ~mLast.threw

(***************************************************************************)
(* BitchatProtocol.processPacket for the packets that have a handler:      *)
(* MESSAGE packets with payloads handleMessage can and cannot read, and    *)
(* the fragment packets of one message, created in the same millisecond    *)
(* or one millisecond apart.  The handler runs before the relay, and what  *)
(* it throws rejects processPacket.                                        *)
(***************************************************************************)
HistoryIdle == hAccepted = {}

\* A packet of the given type from peer 2.
MeshPacket(type, ttl, timestamp, recipient, payload) ==
    [RouterPacket(1, ttl, timestamp, 2, recipient, payload) EXCEPT !.type = type]

\* A message of 600 bytes of content, padded: 1026 bytes, three fragments.
LongMessage ==
    applyPadding(encodeMessage(<<65>>, <<66>>, Filled(600, 7)),
                 randomBytes(1024 - 615, 0))

\* A message handleMessage can read.
ShortMessage ==
    applyPadding(encodeMessage(<<65>>, <<66>>, <<104, 105>>), randomBytes(256 - 17, 0))

\* Payloads removePadding and decodeMessage throw on.
UnreadablePayloads == {<<7>>, applyPadding(<<1, 2, 3>>, randomBytes(253, 0))}

\* The fragment packets of LongMessage; fragment k is created spacing * k
\* milliseconds after the first.
FragmentPackets(spacing) ==
    LET fragments == fragmentMessage(toHex(<<1, 1, 1, 1, 1, 1, 1, 1>>), LongMessage)
    IN  { MeshPacket(fragments[k].type, 3, RouterNow + spacing * k, LocalPeerId,
                     fragments[k].payload) : k \in 1..Len(fragments) }

MeshPackets ==
    { MeshPacket(MESSAGE, 2, RouterNow, PeerId(3), payload) :
          payload \in {ShortMessage} \cup UnreadablePayloads }
    \cup { MeshPacket(MESSAGE, 2, RouterNow + 1, LocalPeerId, ShortMessage),
           MeshPacket(MESSAGE, 0, RouterNow + 2, PeerId(3), ShortMessage),
           MeshPacket(LEAVE, 2, RouterNow + 3, PeerId(3), <<1>>) }
    \cup FragmentPackets(0) \cup FragmentPackets(1)

isFragment(packet) ==
    packet.type \in {FRAGMENT_START, FRAGMENT_CONTINUE, FRAGMENT_END}

\* processPacket's switch calls a handler that reads the payload.
readsPayload(packet) == packet.type = MESSAGE \/ isFragment(packet)

\* The fragmentCache entry of the packet's message after handleFragment's push.
pushed(cache, packet) ==
    Append(cache[parseFragment(packet.payload).messageId],
           parseFragment(packet.payload))

\* What handleFragment's call of reassembleFragments returns, if it is called.
reassembled(buffer) ==
    IF Len(buffer) = buffer[Len(buffer)].totalFragments
    THEN reassembleFragments(buffer)
    ELSE NoBuffer

\* The handler processPacket's switch calls throws.
handlerThrows(packet, cache) ==
    IF packet.type = MESSAGE THEN handleMessageThrows(packet.payload)
    ELSE IF isFragment(packet)
    THEN /\ ~reassembled(pushed(cache, packet)).null
         /\ handleMessageThrows(reassembled(pushed(cache, packet)).data)
    ELSE FALSE

\* processPacket reaches "Relay packet if TTL > 0 and not for us".
relaysAfter(packet, threw) == ~threw /\ relays(packet)

\* The number of packets the router accepts in a run.
MaxAccepted == 3

\* await protocol.processPacket(packet, fromPeer), handler included.
ProcessTypedPacket(packet) ==
    /\ Cardinality(hAccepted) < MaxAccepted
    /\ IF validatePacket(packet, rCache, RouterNow)
       THEN LET threw == handlerThrows(packet, fCache)
            IN  /\ rCache' = cacheAdd(rCache, getPacketId(packet))
                /\ rDelivered' = rDelivered \cup {getPacketId(packet)}
                /\ hAccepted' = hAccepted \cup {packet}
                /\ rLast' = [called |-> TRUE, packet |-> packet,
                             duplicate |-> getPacketId(packet) \in rDelivered,
                             cached |-> FALSE, handled |-> TRUE,
                             relayed |-> relaysAfter(packet, threw),
                             relay |-> IF relaysAfter(packet, threw)
                                       THEN relayPacket(packet)
                                       ELSE NoRouterCall.relay,
                             local |-> readsPayload(packet), threw |-> threw,
                             fresh |-> packet \notin hAccepted]
                /\ IF isFragment(packet)
                   THEN fCache' = handleFragment(fCache,
                                      parseFragment(packet.payload),
                                      pushed(fCache, packet),
                                      reassembled(pushed(fCache, packet)))
                   ELSE UNCHANGED fCache
       ELSE /\ rLast' = [called |-> TRUE, packet |-> packet,
                         duplicate |-> getPacketId(packet) \in rDelivered,
                         cached |-> \E i \in 1..Len(rCache) :
                                        rCache[i] = getPacketId(packet),
                         handled |-> FALSE, relayed |-> FALSE,
                         relay |-> NoRouterCall.relay,
                         local |-> FALSE, threw |-> FALSE,
                         fresh |-> packet \notin hAccepted]
            /\ UNCHANGED <<rCache, rDelivered, hAccepted, fCache>>
    /\ UNCHANGED <<rBlocked, fInput, fPackets, fArrived, fResult, fLast, fCount,
                   fAbandoned, fNow, codecVars, noiseVars, managerVars,
                   sendVars, cipherVars, pipeVars, padVars, bleVars>>

MeshNext == \E packet \in MeshPackets : ProcessTypedPacket(packet)

(***************************************************************************)
(* C37: a valid packet that is not a duplicate, has ttl > 0 and is         *)
(* addressed to another node is relayed, and no handler of this node reads *)
(* its payload, so that the relay does not depend on whether this node can *)
(* unpad or decode the payload.                                            *)
(***************************************************************************)
C37_RelayedUnread ==
    (rLast.called /\ rLast.handled /\ relays(rLast.packet)) =>
        rLast.relayed /\ ~rLast.local

(***************************************************************************)
(* C38: duplicate suppression never drops a packet that differs from every *)
(* packet accepted before: such a packet, when its version, ttl and        *)
(* timestamp are valid, is accepted, as is each fragment packet of one     *)
(* message.                                                                *)
(***************************************************************************)
C38_DistinctPacketsAccepted ==
    (rLast.called /\ rLast.fresh /\ validatePacket(rLast.packet, <<>>, RouterNow)) =>
        rLast.handled

(***************************************************************************)
(* Broadcast packets.  broadcastPacket passes the payload as the           *)
(* application gave it and no recipient to createPacket, and sends the     *)
(* encoded packet to every peer; the receiver's handlePacket does not look *)
(* at the recipient.  Nodes 1 and 2 may hold a session with each other,    *)
(* node 3 holds none.                                                      *)
(***************************************************************************)
\* What BinaryProtocol.decode returns for the broadcast packet pkt from peer.
DecodedBroadcast(hdr, peer, pkt, now) ==
    [Decoded(hdr, peer, peer, pkt, now) EXCEPT !.flags = 0, !.recipientID = Absent]

\* A broadcast MESSAGE packet of node a, its payload not encrypted, is in
\* flight to every other node.
Broadcast(a) ==
    /\ mBudget.data < MaxPipeMessages
    /\ mNet' = [mNet EXCEPT ![a] =
                   [peer \in AllNodes |->
                       IF peer = a THEN @[peer]
                       ELSE Append(@[peer],
                                   [type |-> MESSAGE,
                                    message |-> <<Block(1, <<mBudget.data>>)>>])]]
    /\ mBudget' = [mBudget EXCEPT !.data = @ + 1]
    /\ mLast' = NoOutcome
    /\ UNCHANGED <<mPending, mSessions, mEvents, mNow, mCleanupAt, mEph,
                   managerFrame>>

\* The broadcast packet of peer that is next on the link to node a is decoded
\* and handed to handlePacket.
HandleBroadcast(a, peer) ==
    /\ mNet[peer][a] # <<>>
    /\ Head(mNet[peer][a]).type = MESSAGE
    /\ Handled(a, peer,
               DecodedBroadcast([version |-> PROTOCOL_VERSION, ttl |-> 3], peer, Head(mNet[peer][a]), mNow),
               handlePacket(Manager(a), LocalStatic(a),
                            DecodedBroadcast([version |-> PROTOCOL_VERSION, ttl |-> 3], peer,
                                             Head(mNet[peer][a]), mNow),
                            peer, mNow, Ephemeral(a, mEph[a] + 1)))

BroadcastNext ==
    \/ \E p \in Pairs : InitiateQuiet(p[1], p[2])
    \/ \E p \in Pairs : ProcessHandshakeMessage(p[1], p[2])
    \/ \E a \in Nodes : Broadcast(a)
    \/ \E a \in AllNodes : \E peer \in Nodes \ {a} : HandleBroadcast(a, peer)

(***************************************************************************)
(* C39: a broadcast packet, which is sent without session encryption, is   *)
(* delivered to the application with its payload unchanged by every node   *)
(* whose handlePacket receives it, whether or not that node holds a        *)
(* completed session with the sender.                                      *)
(***************************************************************************)
C39_BroadcastDelivered ==
    (tLast.op = "handlePacket" /\ tLast.packet.recipientID = Absent) =>
        /\ tLast.delivered = 1
        /\ tLast.payload = tLast.packet.payload

(***************************************************************************)
(* The BLE peripheral: NotifyCharacteristic, BLETransport's                *)
(* currentConnection and TransportManager's peer table.  Clients connect,  *)
(* subscribe, unsubscribe and disconnect in any order.  An                 *)
(* updateValueCallback is named by the number of the subscribe event that  *)
(* brought it, 0 being undefined; bleno's callback hands the data to the   *)
(* client and returns.                                                     *)
(***************************************************************************)
MaxSubscriptions == 3

BleAddresses == {1, 2, 3}

\* The buffers handed to sendData, each a single fragment.
BleData == {<<1>>, <<2, 3>>}

\* currentConnection = null
NoConnection == 0

NoBleCall ==
    [op |-> "none", returned |-> FALSE, called |-> 0, data |-> <<>>,
     sent |-> <<>>, connected |-> FALSE]

\* NotifyCharacteristic after construction.
NewNotify == [updateCallback |-> 0, isSubscribed |-> FALSE]

BleIdle ==
    /\ bNotify = NewNotify
    /\ bLatest = "none"
    /\ bSubs = 0
    /\ bConnection = NoConnection
    /\ bPeers = {}
    /\ bClients = {}
    /\ bLast = NoBleCall

\* NotifyCharacteristic.onSubscribe(maxValueSize, updateValueCallback)
onSubscribe(N, updateValueCallback) ==
    [N EXCEPT !.updateCallback = updateValueCallback, !.isSubscribed = TRUE]

\* An onUnsubscribe that leaves the characteristic as it is.
onUnsubscribeKeepsCallback(N) == N

\* NotifyCharacteristic.onUnsubscribe()
onUnsubscribe(N) == [N EXCEPT !.updateCallback = 0, !.isSubscribed = FALSE]

\* NotifyCharacteristic.sendData(data): what it returns and the callback it
\* calls, 0 if none.
notifySendData(N, data) ==
    IF ~N.isSubscribed \/ N.updateCallback = 0
    THEN [returned |-> FALSE, called |-> 0]
    ELSE [returned |-> TRUE, called |-> N.updateCallback]

\* BLETransport.sendData(data) for data of one fragment.
transportSendData(connection, N, data) ==
    IF connection = NoConnection THEN [returned |-> FALSE, called |-> 0]
    ELSE notifySendData(N, data)

bleRest == <<codecVars, noiseVars, managerVars, routerVars, sendVars,
    cipherVars, pipeVars, fragVars, padVars, historyVars>>

\* The client subscribes to the notify characteristic.
OnSubscribe ==
    /\ bSubs < MaxSubscriptions
    /\ bSubs' = bSubs + 1
    /\ bNotify' = onSubscribe(bNotify, bSubs + 1)
    /\ bLatest' = "subscribe"
    /\ bLast' = NoBleCall
    /\ UNCHANGED <<bConnection, bPeers, bClients, bleRest>>

\* The client unsubscribes.
OnUnsubscribe ==
    /\ bNotify' = onUnsubscribe(bNotify)
    /\ bLatest' = "unsubscribe"
    /\ bLast' = NoBleCall
    /\ UNCHANGED <<bSubs, bConnection, bPeers, bClients, bleRest>>

\* BitChatBLEService.sendData(data), which is NotifyCharacteristic.sendData.
ServiceSendData(data) ==
    /\ bLast' = [op |-> "service.sendData",
                 returned |-> notifySendData(bNotify, data).returned,
                 called |-> notifySendData(bNotify, data).called,
                 data |-> data,
                 sent |-> IF notifySendData(bNotify, data).called # 0
                          THEN data ELSE <<>>,
                 connected |-> bConnection # NoConnection]
    /\ UNCHANGED <<bNotify, bLatest, bSubs, bConnection, bPeers, bClients,
                   bleRest>>

\* bleno's 'accept' for a client that was not connected: BLETransport sets
\* currentConnection and emits 'connect', on which TransportManager enters
\* the address in peers.
Accept(clientAddress) ==
    /\ clientAddress \notin bClients
    /\ bClients' = bClients \cup {clientAddress}
    /\ bConnection' = clientAddress
    /\ bPeers' = bPeers \cup {clientAddress}
    /\ bLast' = NoBleCall
    /\ UNCHANGED <<bNotify, bLatest, bSubs, bleRest>>

\* bleno's 'disconnect' for a connected client: BLETransport clears
\* currentConnection and emits 'disconnect', on which TransportManager
\* deletes the peer with that address.
Disconnect(clientAddress) ==
    /\ clientAddress \in bClients
    /\ bClients' = bClients \ {clientAddress}
    /\ bConnection' = NoConnection
    /\ bPeers' = bPeers \ {clientAddress}
    /\ bLast' = NoBleCall
    /\ UNCHANGED <<bNotify, bLatest, bSubs, bleRest>>

\* bleTransport.sendData(encodedData), as sendPacket calls it for a peer of
\* the peer table.
TransportSendData(recipientId, data) ==
    /\ recipientId \in bPeers
    /\ bLast' = [op |-> "transport.sendData",
                 returned |-> transportSendData(bConnection, bNotify, data).returned,
                 called |-> transportSendData(bConnection, bNotify, data).called,
                 data |-> data,
                 sent |-> IF transportSendData(bConnection, bNotify, data).called # 0
                          THEN data ELSE <<>>,
                 connected |-> bConnection # NoConnection]
    /\ UNCHANGED <<bNotify, bLatest, bSubs, bConnection, bPeers, bClients,
                   bleRest>>

BleNext ==
    \/ OnSubscribe
    \/ OnUnsubscribe
    \/ \E data \in BleData : ServiceSendData(data)
    \/ \E clientAddress \in BleAddresses : Accept(clientAddress)
    \/ \E clientAddress \in BleAddresses : Disconnect(clientAddress)
    \/ \E recipientId \in BleAddresses : \E data \in BleData :
          TransportSendData(recipientId, data)

C40_ListedPeersConnected ==
    /\ bPeers # {} => bConnection # NoConnection
    /\ bLast.op = "transport.sendData" => bLast.connected

(***************************************************************************)
(* Specifications.                                                         *)
(***************************************************************************)
InitCodec == CodecInit /\ NoiseInit /\ ManagerInit /\ RouterIdle /\ SendIdle /\ CipherIdle /\ PipeIdle /\ FragIdle /\ PadIdle /\ HistoryIdle /\ BleIdle

SpecCodec == InitCodec /\ [][CodecNext]_vars

InitNoise == CodecIdle /\ NoiseInit /\ ManagerInit /\ RouterIdle /\ SendIdle /\ CipherIdle /\ PipeIdle /\ FragIdle /\ PadIdle /\ HistoryIdle /\ BleIdle

SpecNoise == InitNoise /\ [][NoiseNext]_vars

Init == CodecIdle /\ NoiseInit /\ ManagerInit /\ RouterIdle /\ SendIdle /\ CipherIdle /\ PipeIdle /\ FragIdle /\ PadIdle /\ HistoryIdle /\ BleIdle

Spec == Init /\ [][ManagerNext]_vars

InitReliable == CodecIdle /\ NoiseInit /\ ManagerInit /\ RouterIdle /\ SendIdle /\ CipherIdle /\ PipeIdle /\ FragIdle /\ PadIdle /\ HistoryIdle /\ BleIdle

SpecReliable == InitReliable /\ [][ReliableNext]_vars

InitTransport == CodecIdle /\ NoiseInit /\ ManagerInit /\ RouterIdle /\ SendIdle /\ CipherIdle /\ PipeIdle /\ FragIdle /\ PadIdle /\ HistoryIdle /\ BleIdle

SpecTransport == InitTransport /\ [][TransportNext]_vars

InitSessions == CodecIdle /\ NoiseInit /\ ManagerInit /\ RouterIdle /\ SendIdle /\ CipherIdle /\ PipeIdle /\ FragIdle /\ PadIdle /\ HistoryIdle /\ BleIdle

SpecSessions == InitSessions /\ [][SessionsNext]_vars

InitSweep == CodecIdle /\ NoiseInit /\ ManagerInit /\ RouterIdle /\ SendIdle /\ CipherIdle /\ PipeIdle /\ FragIdle /\ PadIdle /\ HistoryIdle /\ BleIdle

SpecSweep == InitSweep /\ [][SweepNext]_vars

InitPeers == CodecIdle /\ NoiseInit /\ ManagerInit /\ RouterIdle /\ SendIdle /\ CipherIdle /\ PipeIdle /\ FragIdle /\ PadIdle /\ HistoryIdle /\ BleIdle

SpecPeers == InitPeers /\ [][PeersNext]_vars

InitRouter == CodecIdle /\ NoiseInit /\ ManagerInit /\ RouterInit /\ SendIdle /\ CipherIdle /\ PipeIdle /\ FragIdle /\ PadIdle /\ HistoryIdle /\ BleIdle

SpecRouter == InitRouter /\ [][RouterNext]_vars

InitSend == CodecIdle /\ NoiseInit /\ ManagerInit /\ RouterIdle /\ SendInit /\ CipherIdle /\ PipeIdle /\ FragIdle /\ PadIdle /\ HistoryIdle /\ BleIdle

SpecSend == InitSend /\ [][SendNext]_vars

InitCipher == CodecIdle /\ NoiseInit /\ ManagerInit /\ RouterIdle /\ SendIdle /\ CipherInit /\ PipeIdle /\ FragIdle /\ PadIdle /\ HistoryIdle /\ BleIdle

SpecCipher == InitCipher /\ [][CipherNext]_vars

InitPipe == CodecIdle /\ NoiseInit /\ ManagerInit /\ RouterIdle /\ SendIdle /\ CipherIdle /\ PipeInit /\ FragIdle /\ PadIdle /\ HistoryIdle /\ BleIdle

SpecPipe == InitPipe /\ [][PipeNext]_vars

InitBlock == CodecIdle /\ NoiseInit /\ ManagerInit /\ RouterInit /\ SendIdle /\ CipherIdle /\ PipeIdle /\ FragIdle /\ PadIdle /\ HistoryIdle /\ BleIdle

SpecBlock == InitBlock /\ [][BlockNext]_vars

InitFrag == CodecIdle /\ NoiseInit /\ ManagerInit /\ RouterIdle /\ SendIdle /\ CipherIdle /\ PipeIdle /\ FragInit /\ PadIdle /\ HistoryIdle /\ BleIdle

SpecFrag == InitFrag /\ [][FragNext]_vars

InitReassembly == CodecIdle /\ NoiseInit /\ ManagerInit /\ RouterIdle /\ SendIdle /\ CipherIdle /\ PipeIdle /\ ReassemblyInit /\ PadIdle /\ HistoryIdle /\ BleIdle

SpecReassembly == InitReassembly /\ [][ReassemblyNext]_vars

\* The event loop runs every handler that is due.
SpecReassemblyFair == SpecReassembly /\ WF_vars(ReassemblyNext)

InitPad == CodecIdle /\ NoiseInit /\ ManagerInit /\ RouterIdle /\ SendIdle /\ CipherIdle /\ PipeIdle /\ FragIdle /\ PadInit /\ HistoryIdle /\ BleIdle

SpecPad == InitPad /\ [][PadNext]_vars

InitWire == WireInit /\ NoiseInit /\ ManagerInit /\ RouterIdle /\ SendIdle /\ CipherIdle /\ PipeIdle /\ FragIdle /\ PadIdle /\ HistoryIdle /\ BleIdle

SpecWire == InitWire /\ [][WireNext]_vars

InitLife == CodecIdle /\ NoiseInit /\ ManagerInit /\ RouterIdle /\ SendIdle /\ CipherIdle /\ PipeIdle /\ FragIdle /\ PadIdle /\ HistoryIdle /\ BleIdle

SpecLife == InitLife /\ [][LifeNext]_vars

InitSendFail == CodecIdle /\ NoiseInit /\ ManagerInit /\ RouterIdle /\ SendIdle /\ CipherIdle /\ PipeInit /\ FragIdle /\ PadIdle /\ HistoryIdle /\ BleIdle

SpecSendFail == InitSendFail /\ [][SendFailNext]_vars

InitMesh == CodecIdle /\ NoiseInit /\ ManagerInit /\ RouterInit /\ SendIdle /\ CipherIdle /\ PipeIdle /\ ReassemblyInit /\ PadIdle /\ HistoryIdle /\ BleIdle

SpecMesh == InitMesh /\ [][MeshNext]_vars

InitBroadcast == CodecIdle /\ NoiseInit /\ ManagerInit /\ RouterIdle /\ SendIdle /\ CipherIdle /\ PipeInit /\ FragIdle /\ PadIdle /\ HistoryIdle /\ BleIdle

SpecBroadcast == InitBroadcast /\ [][BroadcastNext]_vars

InitBle == CodecIdle /\ NoiseInit /\ ManagerInit /\ RouterIdle /\ SendIdle /\ CipherIdle /\ PipeIdle /\ FragIdle /\ PadIdle /\ HistoryIdle /\ BleIdle

SpecBle == InitBle /\ [][BleNext]_vars

====
